---- MODULE Spec2Model ----
(***************************************************************************)
(* A model of the gta-backend server: the two WebSocket registries         *)
(* (websockets/reviews.ts, websockets/chat.ts), the review routes          *)
(* (routes/reviews.ts) over the query helpers of database.ts, and the      *)
(* service layer (UserService, GameService) over DatabaseService.          *)
(***************************************************************************)
EXTENDS Integers, Sequences, FiniteSets, TLC

(***************************************************************************)
(* Bounds of the model.                                                    *)
(***************************************************************************)
\* number of WebSocket upgrades a behaviour may perform
MaxConn == 3
\* number of review rows a behaviour may insert
MaxReviews == 2
\* number of handlers that may be suspended at an await at the same time
MaxCalls == 2
\* number of user rows a behaviour may insert
MaxUsers == 2

VARIABLES
    reviewClients,   \* reviews.ts: const reviewClients = new Map<string, WebSocket>()
    chatClients,     \* chat.ts: const chatClients = new Map<string, WebSocket>()
    readyState,      \* readyState of every WebSocket created so far
    onclose,         \* ws.onclose: {clientId captured by the handler}, or NoHandler
    onerror,         \* ws.onerror: {clientId captured by the handler}, or NoHandler
    issued,          \* the ids crypto.randomUUID() has returned
    nextWs,          \* number of sockets created by ctx.upgrade()
    fired,           \* history: the events that have fired on each socket
    lastBroadcast,   \* what the broadcastReviewNotification call of the step just taken did
    lastWs,          \* what the WebSocket upgrade request of the step just taken did
    isPostgres,      \* database.ts: let isPostgres
    dbSystem,        \* DatabaseService: private dbSystem
    reviewsUnique,   \* whether the game_reviews table was created with UNIQUE (user_id, game_id)
    game_reviews,    \* the rows of the game_reviews table
    nextReviewId,    \* the id the next inserted review row gets (AUTOINCREMENT / SERIAL)
    calls,           \* the review handlers and service calls suspended at an await
    lastCall,        \* the review handler or service call that ended in the step just taken
    users,           \* the rows of the users table
    nextUserId,      \* the id the next inserted user row gets
    userCalls,       \* the UserService calls suspended at an await
    lastUserCall,    \* the UserService call that ended in the step just taken
    passwordColumn,  \* the name of the column of the users table that holds the hash
    authCall,        \* the request an authMiddleware is handling, or has just answered
    errCall,         \* the request errorMiddleware is handling, or has just answered
    dbService,       \* services/database.ts: const dbService = new DatabaseService()
    db,              \* database.ts: let db
    legacyService,   \* db/database-service.ts: the DatabaseService with pgPool and sqliteDb
    initCall,        \* the initialisation call in progress, or the last one
    driver,          \* the connections that are open, and the transactions open on them
    svcCalls,        \* the calls of dbService suspended at an await
    lastSvcCall,     \* the call of dbService that ended in the step just taken
    sqlCall,         \* the last statement built for the driver: its placeholders
    jwtCall,         \* the last token issued, and the last verification of it
    chat_messages,   \* the number of rows of the chat_messages table
    pendingInserts,  \* the chat INSERTs handed to PostgreSQL that have not ended
    lastChat         \* what the last run of a chat socket's onmessage did

wsVars == << reviewClients, chatClients, readyState, onclose, onerror, issued,
             nextWs, fired, lastBroadcast, lastWs >>
dbVars == << isPostgres, dbSystem, reviewsUnique, game_reviews, nextReviewId,
             calls, lastCall >>
userVars == << users, nextUserId, userCalls, lastUserCall, passwordColumn >>
authVars == << authCall >>
errVars == << errCall >>
svcVars == << dbService, db, legacyService, initCall, driver, svcCalls, lastSvcCall >>
fnVars == << sqlCall, jwtCall >>
msgVars == << chat_messages, pendingInserts, lastChat >>
restVars == << authVars, errVars, svcVars, fnVars, msgVars >>
vars == << wsVars, dbVars, userVars, restVars >>

Sockets == 1..MaxConn
UUIDs == 1..MaxConn
\* a handler that has not been assigned captures no clientId
NoHandler == {}

\* WebSocket.readyState; "NONE" for a socket that does not exist yet
ReadyStates == {"CONNECTING", "OPEN", "CLOSING", "CLOSED"}

(***************************************************************************)
(* Map<string, WebSocket>: a sequence of entries in insertion order.       *)
(***************************************************************************)
MapKeys(m) == { m[i].id : i \in 1..Len(m) }

MapSockets(m) == { m[i].ws : i \in 1..Len(m) }

MapHas(m, k) == k \in MapKeys(m)

\* Map.prototype.set: an existing key keeps its place and gets the new value
MapSet(m, k, v) ==
    IF MapHas(m, k)
    THEN [ i \in 1..Len(m) |-> IF m[i].id = k THEN [id |-> k, ws |-> v] ELSE m[i] ]
    ELSE Append(m, [id |-> k, ws |-> v])

\* Map.prototype.delete
MapDelete(m, k) == SelectSeq(m, LAMBDA e : e.id # k)

RECURSIVE MapDeleteAll(_, _)
MapDeleteAll(m, ks) ==
    IF ks = << >> THEN m ELSE MapDeleteAll(MapDelete(m, Head(ks)), Tail(ks))

\* number of occurrences of x in the sequence s
Count(s, x) == Cardinality({ i \in 1..Len(s) : s[i] = x })

SeqToSet(s) == { s[i] : i \in 1..Len(s) }

(***************************************************************************)
(* JWT tokens of a request: absent, empty, or a token that verifies or not *)
(***************************************************************************)
Users == {"alice", "bob"}

NoToken == [kind |-> "absent", user |-> "nobody", valid |-> FALSE]

EmptyToken == [kind |-> "empty", user |-> "nobody", valid |-> FALSE]

Tokens == { NoToken, EmptyToken } \cup [ kind : {"jwt"}, user : Users, valid : BOOLEAN ]

\* !token
TokenMissing(t) == t.kind \in {"absent", "empty"}

\* djwt verify(token, key): returns the payload, or throws
VerifyOk(t) == t.kind = "jwt" /\ t.valid

(***************************************************************************)
(* websockets/reviews.ts: broadcastReviewNotification                      *)
(***************************************************************************)
\* the loop's locals: the send calls made so far, the sends that threw,
\* clientsToRemove, and whether an exception left the loop
NoCalls == [ calls |-> << >>, threw |-> {}, clientsToRemove |-> << >>, escaped |-> FALSE ]

\* the body of the for loop without its try/catch: a send that throws
\* leaves the loop
VisitClientNoCatch(e, states, throwers, acc) ==
    IF states[e.ws] = "OPEN"
    THEN IF e.ws \in throwers
         THEN [ acc EXCEPT !.calls = Append(@, e.ws), !.threw = @ \cup {e.ws},
                           !.escaped = TRUE ]
         ELSE [ acc EXCEPT !.calls = Append(@, e.ws) ]
    ELSE IF states[e.ws] \in {"CLOSED", "CLOSING"}
         THEN [ acc EXCEPT !.clientsToRemove = Append(@, e.id) ]
         ELSE acc

\* the body of the for loop, for one entry of the map: `throwers` are the
\* sockets whose send throws
VisitClient(e, states, throwers, acc) ==
    IF states[e.ws] = "OPEN"
    THEN IF e.ws \in throwers
         THEN \* catch (error): clientsToRemove.push(clientId)
              [ acc EXCEPT !.calls = Append(@, e.ws), !.threw = @ \cup {e.ws},
                           !.clientsToRemove = Append(@, e.id) ]
         ELSE [ acc EXCEPT !.calls = Append(@, e.ws) ]
    ELSE IF states[e.ws] \in {"CLOSED", "CLOSING"}
         THEN [ acc EXCEPT !.clientsToRemove = Append(@, e.id) ]
         ELSE acc

\* for (const [clientId, client] of reviewClients.entries()): an exception
\* that leaves the body ends the loop
RECURSIVE ForEachClient(_, _, _, _, _)
ForEachClient(m, i, states, throwers, acc) ==
    IF i > Len(m) \/ acc.escaped
    THEN acc
    ELSE ForEachClient(m, i + 1, states, throwers, VisitClient(m[i], states, throwers, acc))

\* a clean-up that deletes nothing
CleanUpKeepAll(m, acc) == m

\* the second loop: reviewClients.delete(clientId) for each client marked;
\* it is not reached when an exception left the first loop

CleanUp(m, acc) ==
    IF acc.escaped THEN m ELSE MapDeleteAll(m, acc.clientsToRemove)

\* the whole call: the record of what it did and the map it leaves
BroadcastResult(m, states, throwers) ==
    LET acc == ForEachClient(m, 1, states, throwers, NoCalls)
    IN  [ done |-> TRUE, before |-> m, state |-> states, calls |-> acc.calls,
          threw |-> acc.threw, clientsToRemove |-> acc.clientsToRemove,
          escaped |-> acc.escaped, after |-> CleanUp(m, acc) ]

NoBroadcast ==
    [ done |-> FALSE, before |-> << >>, state |-> [ w \in Sockets |-> "NONE" ],
      calls |-> << >>, threw |-> {}, clientsToRemove |-> << >>, escaped |-> FALSE,
      after |-> << >> ]

(***************************************************************************)
(* websockets/reviews.ts: setupReviewWebsockets, the /ws/reviews middleware *)
(***************************************************************************)

\* crypto.randomUUID(): an id that was never returned before; the ids are
\* interchangeable, so the least one not yet returned stands for any of them
RandomUUID(used) == { i \in UUIDs \ used : \A j \in UUIDs \ used : i <= j }

\* how the handler sees the token of a request
TokenClass(t) ==
    IF TokenMissing(t) THEN "missing" ELSE IF VerifyOk(t) THEN "valid" ELSE "invalid"

NoWsRequest ==
    [ path |-> "none", upgradable |-> FALSE, token |-> "missing", status |-> "none",
      id |-> {}, ws |-> {}, welcome |-> "none", before |-> << >>, after |-> << >> ]

\* the welcome message: if (ws.readyState === WebSocket.OPEN) ws.send(...),
\* inside a try whose catch only logs
ReviewWelcome(st, sendThrows) ==
    IF st = "OPEN" THEN (IF sendThrows THEN "threw" ELSE "sent") ELSE "skipped"

\* the handler from ctx.upgrade() to its return: it runs without an await
\* in between, so no event of the new socket is delivered inside it
ReviewUpgrade(token, id, st, sendThrows) ==
    LET ws == nextWs + 1
    IN  /\ nextWs' = ws
        /\ issued' = issued \cup {id}
        /\ readyState' = [ readyState EXCEPT ![ws] = st ]
        /\ reviewClients' = MapSet(reviewClients, id, ws)
        /\ onclose' = [ onclose EXCEPT ![ws] = {id} ]
        /\ onerror' = [ onerror EXCEPT ![ws] = {id} ]
        /\ lastWs' = [ path |-> "/ws/reviews", upgradable |-> TRUE,
                       token |-> TokenClass(token), status |-> "101",
                       id |-> {id}, ws |-> {ws}, welcome |-> ReviewWelcome(st, sendThrows),
                       before |-> reviewClients, after |-> reviewClients' ]
        /\ lastBroadcast' = NoBroadcast
        /\ UNCHANGED << chatClients, fired, dbVars, userVars, restVars >>

\* ctx.throw(501): the request is not upgradable
ReviewNotUpgradable(token) ==
    /\ lastWs' = [ path |-> "/ws/reviews", upgradable |-> FALSE,
                   token |-> TokenClass(token), status |-> "501",
                   id |-> {}, ws |-> {}, welcome |-> "none",
                   before |-> reviewClients, after |-> reviewClients ]
    /\ lastBroadcast' = NoBroadcast
    /\ UNCHANGED << reviewClients, chatClients, readyState, onclose, onerror, issued,
                    nextWs, fired, dbVars, userVars, restVars >>

\* ctx.upgrade() throws: caught and logged, nothing is stored
ReviewUpgradeFails(token) ==
    /\ lastWs' = [ path |-> "/ws/reviews", upgradable |-> TRUE,
                   token |-> TokenClass(token), status |-> "error",
                   id |-> {}, ws |-> {}, welcome |-> "none",
                   before |-> reviewClients, after |-> reviewClients ]
    /\ lastBroadcast' = NoBroadcast
    /\ UNCHANGED << reviewClients, chatClients, readyState, onclose, onerror, issued,
                    nextWs, fired, dbVars, userVars, restVars >>

\* a request for /ws/reviews; its token is optional and a token that does
\* not verify is ignored
ReviewWsRequest ==
    \E upgradable \in BOOLEAN, token \in Tokens, upgradeThrows \in BOOLEAN :
        IF ~upgradable
        THEN ReviewNotUpgradable(token)
        ELSE IF upgradeThrows
        THEN ReviewUpgradeFails(token)
        ELSE /\ nextWs < MaxConn
             /\ \E id \in RandomUUID(issued), st \in {"CONNECTING", "OPEN"},
                   sendThrows \in BOOLEAN :
                    ReviewUpgrade(token, id, st, sendThrows)

(***************************************************************************)
(* The life of a socket, driven by the peer and the runtime                *)
(***************************************************************************)
SocketOpens ==
    \E w \in Sockets :
        /\ readyState[w] = "CONNECTING"
        /\ readyState' = [ readyState EXCEPT ![w] = "OPEN" ]
        /\ lastBroadcast' = NoBroadcast
        /\ lastWs' = NoWsRequest
        /\ UNCHANGED << reviewClients, chatClients, onclose, onerror, issued, nextWs, fired, dbVars, userVars, restVars >>

SocketStartsClosing ==
    \E w \in Sockets :
        /\ readyState[w] \in {"CONNECTING", "OPEN"}
        /\ readyState' = [ readyState EXCEPT ![w] = "CLOSING" ]
        /\ lastBroadcast' = NoBroadcast
        /\ lastWs' = NoWsRequest
        /\ UNCHANGED << reviewClients, chatClients, onclose, onerror, issued, nextWs, fired, dbVars, userVars, restVars >>

\* the connection is closed; its close event is dispatched afterwards
SocketCloses ==
    \E w \in Sockets :
        /\ readyState[w] \in {"CONNECTING", "OPEN", "CLOSING"}
        /\ readyState' = [ readyState EXCEPT ![w] = "CLOSED" ]
        /\ lastBroadcast' = NoBroadcast
        /\ lastWs' = NoWsRequest
        /\ UNCHANGED << reviewClients, chatClients, onclose, onerror, issued, nextWs, fired, dbVars, userVars, restVars >>

\* ws.onclose = () => { reviewClients.delete(clientId) }
OnCloseKeeps(m, w) == m

OnClose(m, w) == IF onclose[w] = NoHandler THEN m ELSE MapDeleteAll(m, << CHOOSE k \in onclose[w] : TRUE >>)

\* ws.onerror = (event) => { reviewClients.delete(clientId) }
OnError(m, w) == IF onerror[w] = NoHandler THEN m ELSE MapDeleteAll(m, << CHOOSE k \in onerror[w] : TRUE >>)

\* the close event of a review socket
ReviewCloseEvent ==
    \E w \in Sockets :
        /\ readyState[w] = "CLOSED"
        /\ "close" \notin fired[w]
        /\ fired' = [ fired EXCEPT ![w] = @ \cup {"close"} ]
        /\ reviewClients' = OnClose(reviewClients, w)
        /\ lastBroadcast' = NoBroadcast
        /\ lastWs' = NoWsRequest
        /\ UNCHANGED << chatClients, readyState, onclose, onerror, issued, nextWs, dbVars, userVars, restVars >>

\* the error event of a review socket
ReviewErrorEvent ==
    \E w \in Sockets :
        /\ readyState[w] \in {"CONNECTING", "OPEN", "CLOSING"}
        /\ "error" \notin fired[w]
        /\ fired' = [ fired EXCEPT ![w] = @ \cup {"error"} ]
        /\ reviewClients' = OnError(reviewClients, w)
        /\ lastBroadcast' = NoBroadcast
        /\ lastWs' = NoWsRequest
        /\ UNCHANGED << chatClients, readyState, onclose, onerror, issued, nextWs, dbVars, userVars, restVars >>

\* one call of broadcastReviewNotification: it has no await, so it runs
\* to its end before any other handler
Broadcast ==
    \E throwers \in SUBSET { w \in MapSockets(reviewClients) : readyState[w] = "OPEN" } :
        /\ lastBroadcast' = BroadcastResult(reviewClients, readyState, throwers)
        /\ reviewClients' = lastBroadcast'.after
        /\ lastWs' = NoWsRequest
        /\ UNCHANGED << chatClients, readyState, onclose, onerror, issued, nextWs, fired, dbVars, userVars, restVars >>

(***************************************************************************)
(* JSON values of a request body, with the JavaScript operators the        *)
(* review route applies to them.  A number is kept in tenths, so that 2.5  *)
(* is a value; a field the body does not have is undefined.                *)
(***************************************************************************)
Undefined == [ type |-> "undefined", tenths |-> 0, text |-> "" ]
Num(t) == [ type |-> "number", tenths |-> t, text |-> "" ]
Str(s) == [ type |-> "string", tenths |-> 0, text |-> s ]

\* the strings that consist of white space only
BlankTexts == {"", " "}
\* !v
Falsy(v) ==
    \/ v.type = "undefined"
    \/ v.type = "number" /\ v.tenths = 0
    \/ v.type = "string" /\ v.text = ""
\* v.trim() is a TypeError unless v is a string
HasTrim(v) == v.type = "string"
\* v.trim()
Trim(v) == IF v.text \in BlankTexts THEN "" ELSE v.text
\* Number(v) is NaN: undefined, and every string here that is not blank
IsNaN(v) ==
    \/ v.type = "undefined"
    \/ v.type = "string" /\ v.text \notin BlankTexts
\* v < k and v > k after the conversion to a number; false when it is NaN
Less(v, k) == ~IsNaN(v) /\ v.tenths < 10 * k
Greater(v, k) == ~IsNaN(v) /\ v.tenths > 10 * k

\* the rows of the games table, and the game ids a caller may name
Games == {"g1"}
GameIds == {"g1", "g2"}
\* the reviewData a caller of GameService passes
ReviewData == { [ rating |-> Num(30), content |-> "good" ], [ rating |-> Num(40), content |-> "bad" ] }
ReviewIds == 1..MaxReviews

\* the body of a POST /api/reviews request; kind "none" is a request whose
\* body is absent or is not JSON, so that body.json() rejects
NoBody == [ kind |-> "none", gameId |-> Undefined, content |-> Undefined, rating |-> Undefined ]
Body(gameId, content, rating) ==
    [ kind |-> "object", gameId |-> gameId, content |-> content, rating |-> rating ]
\* the bodies that pass the checks of the route, the bodies with one field
\* missing or out of range, and two bodies with two such fields
Bodies ==
    { NoBody }
    \cup { Body(Str("g1"), Str("good"), Num(30)), Body(Str("g1"), Str("bad"), Num(40)),
           Body(Str("g1"), Str("good"), Str("abc")), Body(Str("g1"), Str("good"), Num(25)) }
    \cup { Body(Undefined, Str("good"), Num(30)) }
    \cup { Body(Str("g1"), c, Num(30)) : c \in { Undefined, Str(" "), Num(70) } }
    \cup { Body(Str("g1"), Str("good"), r) : r \in { Undefined, Num(0), Num(60) } }
    \cup { Body(Str("g1"), Num(70), Undefined), Body(Undefined, Num(70), Num(60)) }

(***************************************************************************)
(* SQL text: the offsets of its '?' characters, and the numbers of its     *)
(* '$n' placeholders in order of appearance.  dialect "sqlite" marks a     *)
(* statement only SQLite understands.                                      *)
(***************************************************************************)
Sql(name, marks) == [ text |-> name, qmarks |-> marks, dollars |-> << >>, dialect |-> "sql" ]

\* routes/reviews.ts
checkQuery == Sql("SELECT id FROM game_reviews WHERE game_id = ? AND user_id = ?", << 57, 73 >>)
updateQuery == Sql("UPDATE game_reviews SET rating = ?, content = ? WHERE id = ?", << 50, 63, 114 >>)
insertQuery == Sql("INSERT INTO game_reviews VALUES (?, ?, ?, ?)", << 110, 113, 116, 119 >>)
lastIdQuery == [ Sql("SELECT last_insert_rowid()", << >>) EXCEPT !.dialect = "sqlite" ]
deleteCheckQuery == Sql("SELECT game_id FROM game_reviews WHERE id = ? AND user_id = ?", << 57, 73 >>)
deleteQuery == Sql("DELETE FROM game_reviews WHERE id = ?", << 49 >>)
\* services/game-service.ts
gameByIdQuery == Sql("SELECT * FROM games WHERE id = ?", << 31 >>)
reviewByIdQuery == Sql("SELECT gr.*, u.username WHERE gr.id = ?", << 128 >>)
userGameReviewQuery == Sql("SELECT gr.*, u.username WHERE gr.user_id = ? AND gr.game_id = ?", << 133, 152 >>)
\* services/user-service.ts
userByIdQuery == Sql("SELECT * FROM users WHERE id = ?", << 31 >>)
userByUsernameQuery == Sql("SELECT * FROM users WHERE username = ?", << 37 >>)
userByEmailQuery == Sql("SELECT * FROM users WHERE email = ?", << 34 >>)

\* query.replace(/\?/g, (_, i) => `$${i + 1}`): the second argument of the
\* callback is the offset of the match in the string
ReplaceQuestionMarks(q) ==
    [ q EXCEPT !.qmarks = << >>,
               !.dollars = q.dollars \o [ k \in 1..Len(q.qmarks) |-> q.qmarks[k] + 1 ] ]

\* the PostgreSQL driver runs a statement whose placeholders are $1..$n for
\* the n parameters it is handed, and rejects '?' and SQLite functions
PgRuns(q, params) ==
    /\ q.dialect = "sql"
    /\ q.qmarks = << >>
    /\ { q.dollars[k] : k \in 1..Len(q.dollars) } = 1..Len(params)

\* SQLite binds the parameters to the '?' in order
SqliteRuns(q, params) == q.dollars = << >> /\ Len(q.qmarks) = Len(params)

(***************************************************************************)
(* A handler or service call.  pc is the await it is suspended at; events  *)
(* lists what it has done to the table and the registry; pre is the review *)
(* the call was about when it started (0: none).                           *)
(***************************************************************************)
\* the rating statistics a call has read and returned: seen is the reviews
\* of the game that were stored when its query ran, avg is in tenths
NoStats == [ seen |-> {}, avg |-> 0, count |-> 0 ]

Idle ==
    [ op |-> "idle", pc |-> "idle", user |-> "nobody", body |-> NoBody,
      target |-> 0, existing |-> 0, pre |-> 0, events |-> << >>,
      reviewId |-> 0, raised |-> FALSE, status |-> "", gameId |-> "",
      stats |-> NoStats, route |-> "" ]

Slots == 1..MaxCalls

\* a call of UserService
IdleUser ==
    [ op |-> "idle", pc |-> "idle", username |-> "", email |-> "", password |-> "",
      hash |-> << >>, id |-> 0, known |-> FALSE, matches |-> FALSE, inserted |-> FALSE,
      status |-> "", message |-> "", token |-> "", returned |-> {} ]

InitTablesIdle ==
    /\ isPostgres = FALSE
    /\ dbSystem = "sqlite"
    /\ reviewsUnique = FALSE
    /\ game_reviews = {}
    /\ nextReviewId = 1
    /\ calls = [ i \in Slots |-> Idle ]
    /\ lastCall = Idle

InitUsersIdle ==
    /\ users = {}
    /\ nextUserId = 1
    /\ userCalls = [ i \in Slots |-> IdleUser ]
    /\ lastUserCall = IdleUser
    /\ passwordColumn = "password_hash"

\* a request at an authMiddleware: the variant, the Authorization header,
\* the token it carries, whether the auth_token cookie is set, whether the
\* protected handler throws; then what the middleware did
IdleAuth ==
    [ pc |-> "idle", variant |-> "", header |-> "none",
      token |-> [ issuer |-> "none", user |-> "nobody", expired |-> FALSE ], cookie |-> FALSE,
      throws |-> FALSE, verified |-> FALSE, runs |-> 0,
      stateUser |-> [ id |-> "unset", username |-> "unset" ], status |-> "" ]

InitAuthIdle == authCall = IdleAuth

\* an error value: what `instanceof` and isHttpError say of it, and its fields
NoError == [ kind |-> "none", status |-> 0, code |-> "", message |-> "", details |-> FALSE ]
\* ctx.response: oak answers 404 until a status or a body is set
NoResponse == [ status |-> 404, body |-> [ kind |-> "none" ] ]
\* a request at errorMiddleware: what the downstream middleware did (threw,
\* the response it left), and the response after errorMiddleware
IdleError ==
    [ pc |-> "idle", thrown |-> NoError, downstream |-> NoResponse, response |-> NoResponse ]

InitErrorIdle == errCall = IdleError

\* this.client = null: no client of the pool (the clients are 1, 2, ...)
NullClient == -1
\* what the world is like while an initialisation runs: does the pool
\* connect, does the schema SQL run on PostgreSQL, does the SQLite file
\* open, does the converted schema run on SQLite
Worlds ==
    [ pgConnects : BOOLEAN, pgSchema : BOOLEAN, sqliteOpens : BOOLEAN, sqliteSchema : BOOLEAN ]
IdleInit ==
    [ op |-> "idle", pc |-> "idle", result |-> "",
      world |-> [ pgConnects |-> TRUE, pgSchema |-> TRUE, sqliteOpens |-> TRUE,
                  sqliteSchema |-> TRUE ] ]
\* new DatabaseService() of services/database.ts; dbSystem is the variable
NewService == [ db |-> "null", client |-> NullClient, inTransaction |-> FALSE ]
\* new DatabaseService() of db/database-service.ts
NewLegacyService ==
    [ dbSystem |-> "sqlite", sqliteDb |-> "undefined", pgPool |-> "undefined",
      initialized |-> FALSE ]
NoConnections == [ pool |-> FALSE, sqlite |-> FALSE, transactions |-> {} ]
\* a call of dbService: the client its statement went to, the fields of the
\* service and the open transactions when it was made, how it ended, and
\* whether its COMMIT or ROLLBACK ended an open transaction
NoSnapshot ==
    [ db |-> "null", dbSystem |-> "null", client |-> NullClient, inTransaction |-> FALSE,
      transactions |-> {} ]
IdleSvc ==
    [ op |-> "idle", pc |-> "idle", client |-> NullClient, before |-> NoSnapshot, result |-> "",
      ended |-> FALSE ]

\* the services as the other parts of the program find them: initialised
\* on the backend that dbSystem and isPostgres name
InitServiceIdle ==
    /\ dbService = [ NewService EXCEPT !.db = IF dbSystem = "postgres" THEN "Pool" ELSE "DB" ]
    /\ db = IF isPostgres THEN "Pool" ELSE "DB"
    /\ legacyService = NewLegacyService
    /\ initCall = IdleInit
    /\ driver = [ NoConnections EXCEPT !.pool = isPostgres \/ dbSystem = "postgres",
                                       !.sqlite = ~isPostgres \/ dbSystem = "sqlite" ]
    /\ svcCalls = [ i \in Slots |-> IdleSvc ]
    /\ lastSvcCall = IdleSvc

\* no statement built yet; '?' is written 0 and '$n' is written n
IdleSql ==
    [ op |-> "idle", postgres |-> FALSE, columns |-> 0, written |-> << >>,
      params |-> 0, placeholders |-> << >> ]
\* no token issued yet; times are counted in days
IdleJwt ==
    [ op |-> "idle", issuer |-> "", iat |-> 0, exp |-> 0, now |-> 0, result |-> "" ]
InitFnIdle == sqlCall = IdleSql /\ jwtCall = IdleJwt

\* a frame a chat client sends: text that JSON.parse rejects, the JSON
\* value null, or an object with a type and a content
NotJson == [ kind |-> "invalid", type |-> "", content |-> "" ]
JsonNull == [ kind |-> "null", type |-> "", content |-> "" ]
Frame(type, content) == [ kind |-> "object", type |-> type, content |-> content ]
\* no frame handled yet
IdleChat ==
    [ ws |-> 0, frame |-> NotJson, insert |-> "none", rowsBefore |-> 0, rowsAfter |-> 0,
      broadcast |-> FALSE, sentTo |-> {}, before |-> "NONE", after |-> "NONE" ]
InitMsgIdle == chat_messages = 0 /\ pendingInserts = 0 /\ lastChat = IdleChat

InitRestIdle ==
    InitAuthIdle /\ InitErrorIdle /\ InitServiceIdle /\ InitFnIdle /\ InitMsgIdle

InitSockets ==
    /\ reviewClients = << >>
    /\ chatClients = << >>
    /\ readyState = [ w \in Sockets |-> "NONE" ]
    /\ onclose = [ w \in Sockets |-> NoHandler ]
    /\ onerror = [ w \in Sockets |-> NoHandler ]
    /\ issued = {}
    /\ nextWs = 0
    /\ fired = [ w \in Sockets |-> {} ]
    /\ lastBroadcast = NoBroadcast
    /\ lastWs = NoWsRequest
    /\ InitTablesIdle
    /\ InitUsersIdle
    /\ InitRestIdle

Init == InitSockets

Next ==
    \/ ReviewWsRequest
    \/ SocketOpens
    \/ SocketStartsClosing
    \/ SocketCloses
    \/ ReviewCloseEvent
    \/ ReviewErrorEvent
    \/ Broadcast

\* the review notification registry
Spec == Init /\ [][Next]_vars

(***************************************************************************)
(* The review notification registry: properties                            *)
(***************************************************************************)
\* the entries of a map, as a set
MapEntries(m) == { m[i] : i \in 1..Len(m) }

\* C1: in one call of broadcastReviewNotification every client of the review
\* registry that is OPEN when it is visited has send called on it exactly
\* once, no client in another state has send called on it, and a send that
\* throws neither stops the sends to the clients visited after it nor
\* escapes the function.
C1_SendOncePerOpenClient ==
    lastBroadcast.done =>
        /\ ~lastBroadcast.escaped
        /\ SeqToSet(lastBroadcast.calls) \subseteq MapSockets(lastBroadcast.before)
        /\ \A e \in MapEntries(lastBroadcast.before) :
              Count(lastBroadcast.calls, e.ws) =
                  IF lastBroadcast.state[e.ws] = "OPEN" THEN 1 ELSE 0

\* a broadcast in which a send threw, a client visited later was sent the
\* notification, and a client that was not OPEN was skipped
C1_Witness ==
    /\ lastBroadcast.done
    /\ \E i, j \in 1..Len(lastBroadcast.before) :
          /\ i < j
          /\ lastBroadcast.before[i].ws \in lastBroadcast.threw
          /\ lastBroadcast.before[j].ws \in SeqToSet(lastBroadcast.calls)
    /\ \E e \in MapEntries(lastBroadcast.before) : lastBroadcast.state[e.ws] # "OPEN"

\* C2: when broadcastReviewNotification returns, the review registry holds
\* no client that was seen CLOSED or CLOSING or whose send threw during the
\* call, still holds every client whose send succeeded, and holds no entry
\* that it did not hold before.
C2_RegistryAfterBroadcast ==
    lastBroadcast.done =>
        /\ reviewClients = lastBroadcast.after
        /\ \A e \in MapEntries(lastBroadcast.before) :
              /\ ( lastBroadcast.state[e.ws] \in {"CLOSED", "CLOSING"}
                   \/ e.ws \in lastBroadcast.threw )
                      => e \notin MapEntries(reviewClients)
              /\ ( e.ws \in SeqToSet(lastBroadcast.calls) /\ e.ws \notin lastBroadcast.threw )
                      => e \in MapEntries(reviewClients)
        /\ MapEntries(reviewClients) \subseteq MapEntries(lastBroadcast.before)

\* a broadcast that removed a closed client and a client whose send threw
\* and kept a client whose send succeeded
C2_Witness ==
    /\ lastBroadcast.done
    /\ \E e \in MapEntries(lastBroadcast.before) :
          lastBroadcast.state[e.ws] = "CLOSED" /\ e \notin MapEntries(reviewClients)
    /\ \E e \in MapEntries(lastBroadcast.before) :
          e.ws \in lastBroadcast.threw /\ e \notin MapEntries(reviewClients)
    /\ \E e \in MapEntries(lastBroadcast.before) :
          e.ws \in SeqToSet(lastBroadcast.calls) /\ e \in MapEntries(reviewClients)

\* C3: every /ws/reviews request that upgrades is stored in the review
\* registry under a freshly generated id that no other entry uses; once the
\* close event or the error event of a connection has fired, the connection
\* is not in the registry (in this state and in every later one); a request
\* that is not upgradable is answered 501 and registers nothing.
C3_RegisterOnUpgrade ==
    /\ ( lastWs.path = "/ws/reviews" /\ lastWs.status = "101" ) =>
          \E id \in lastWs.id, w \in lastWs.ws :
              /\ id \notin MapKeys(lastWs.before)
              /\ w \notin MapSockets(lastWs.before)
              /\ reviewClients = Append(lastWs.before, [id |-> id, ws |-> w])
    /\ ( lastWs.path = "/ws/reviews" /\ lastWs.status = "501" ) =>
          /\ reviewClients = lastWs.before
          /\ lastWs.ws = {}
    /\ \A w \in Sockets : fired[w] # {} => w \notin MapSockets(reviewClients)

\* a connection is registered while an earlier one, whose close event has
\* fired, is gone from the registry, and another is still registered
C3_Witness ==
    /\ lastWs.path = "/ws/reviews" /\ lastWs.status = "101"
    /\ Len(reviewClients) = 2
    /\ \E w \in Sockets : "close" \in fired[w] /\ w \notin MapSockets(reviewClients)

(***************************************************************************)
(* websockets/chat.ts: setupWebsockets, the /ws/chat middleware            *)
(***************************************************************************)
\* a verification that accepts every token that is present
VerifyAny(t) == t.kind = "jwt"

\* the try around verify(token, await getJwtSecret()): TRUE when it returns
ChatVerify(t) == VerifyOk(t)

\* ws.send on a socket: it throws unless the socket is OPEN, and may throw
\* on an OPEN socket too (`throwers`)
SendThrows(w, states, throwers) == states[w] # "OPEN" \/ w \in throwers

\* broadcastMessage: send to every OPEN client, with no try/catch; TRUE
\* when a send throws, which ends the loop and leaves the function
BroadcastMessageThrows(m, states, throwers) ==
    \E w \in MapSockets(m) : states[w] = "OPEN" /\ w \in throwers

ChatAnswer(upgradable, token, status) ==
    /\ lastWs' = [ path |-> "/ws/chat", upgradable |-> upgradable,
                   token |-> TokenClass(token), status |-> status,
                   id |-> {}, ws |-> {}, welcome |-> "none",
                   before |-> chatClients, after |-> chatClients ]
    /\ lastBroadcast' = NoBroadcast
    /\ UNCHANGED << reviewClients, chatClients, readyState, onclose, onerror, issued,
                    nextWs, fired, dbVars, userVars, restVars >>

\* from ctx.upgrade() to the end of the handler; the welcome send and the
\* "has joined" broadcast are outside any try, so an exception of either
\* leaves the handler before onmessage and onclose are assigned
ChatUpgrade(token, id, st, throwers) ==
    LET ws == nextWs + 1
        states == [ readyState EXCEPT ![ws] = st ]
        stored == MapSet(chatClients, id, ws)
        welcomeThrew == SendThrows(ws, states, throwers)
        joinThrew == ~welcomeThrew /\ BroadcastMessageThrows(stored, states, throwers)
    IN  /\ nextWs' = ws
        /\ issued' = issued \cup {id}
        /\ readyState' = states
        /\ chatClients' = stored
        /\ onclose' = [ onclose EXCEPT ![ws] =
                            IF welcomeThrew \/ joinThrew THEN NoHandler ELSE {id} ]
        /\ lastWs' = [ path |-> "/ws/chat", upgradable |-> TRUE,
                       token |-> TokenClass(token),
                       status |-> IF welcomeThrew \/ joinThrew THEN "error" ELSE "101",
                       id |-> {id}, ws |-> {ws},
                       welcome |-> IF welcomeThrew THEN "threw" ELSE "sent",
                       before |-> chatClients, after |-> stored ]
        /\ lastBroadcast' = NoBroadcast
        /\ UNCHANGED << reviewClients, onerror, fired, dbVars, userVars, restVars >>

\* a request for /ws/chat
ChatWsRequest ==
    \E upgradable \in BOOLEAN, token \in Tokens, upgradeThrows \in BOOLEAN :
        IF ~upgradable
        THEN \* ctx.throw(501)
             ChatAnswer(upgradable, token, "501")
        ELSE IF TokenMissing(token)
        THEN \* ctx.throw(401, "Authentication token required")
             ChatAnswer(upgradable, token, "401")
        ELSE IF ~ChatVerify(token)
        THEN \* ctx.throw(401, "Invalid token")
             ChatAnswer(upgradable, token, "401")
        ELSE IF upgradeThrows
        THEN ChatAnswer(upgradable, token, "error")
        ELSE /\ nextWs < MaxConn
             /\ \E id \in RandomUUID(issued), st \in {"CONNECTING", "OPEN"},
                   throwers \in SUBSET { w \in Sockets : w <= nextWs + 1 } :
                    ChatUpgrade(token, id, st, throwers)

\* ws.onclose = () => { chatClients.delete(clientId); broadcastMessage(...) }
\* an exception of the broadcast is raised inside the event handler
ChatOnClose(m, w) ==
    IF onclose[w] = NoHandler THEN m ELSE MapDeleteAll(m, << CHOOSE k \in onclose[w] : TRUE >>)

\* the close event of a chat socket
ChatCloseEvent ==
    \E w \in Sockets :
        /\ readyState[w] = "CLOSED"
        /\ "close" \notin fired[w]
        /\ fired' = [ fired EXCEPT ![w] = @ \cup {"close"} ]
        /\ chatClients' = ChatOnClose(chatClients, w)
        /\ lastBroadcast' = NoBroadcast
        /\ lastWs' = NoWsRequest
        /\ UNCHANGED << reviewClients, readyState, onclose, onerror, issued, nextWs, dbVars, userVars, restVars >>

NextChat ==
    \/ ChatWsRequest
    \/ SocketOpens
    \/ SocketStartsClosing
    \/ SocketCloses
    \/ ChatCloseEvent

\* the chat registry
SpecChat == InitSockets /\ [][NextChat]_vars

\* C4 as stated: a connection is added to the chat registry only when the
\* request carries a token that verifies; every request with no token or
\* with a token that fails verification is answered 401, is not upgraded
\* and leaves the chat registry unchanged.
C4_AsStated ==
    lastWs.path = "/ws/chat" =>
        /\ chatClients # lastWs.before => lastWs.token = "valid"
        /\ lastWs.token \in {"missing", "invalid"} =>
              /\ lastWs.status = "401"
              /\ lastWs.ws = {}
              /\ chatClients = lastWs.before

\* C4, amended: a connection is added to the chat registry only when the
\* request carries a token that verifies; an upgradable request with no
\* token or with a token that fails verification is answered 401, is not
\* upgraded and leaves the chat registry unchanged; a request that is not
\* upgradable is answered 501 whatever its token, and registers nothing.
C4_ChatRequiresToken ==
    lastWs.path = "/ws/chat" =>
        /\ chatClients # lastWs.before => lastWs.token = "valid"
        /\ ( lastWs.upgradable /\ lastWs.token \in {"missing", "invalid"} ) =>
              /\ lastWs.status = "401"
              /\ lastWs.ws = {}
              /\ chatClients = lastWs.before
        /\ ~lastWs.upgradable =>
              /\ lastWs.status = "501"
              /\ lastWs.ws = {}
              /\ chatClients = lastWs.before

\* a request whose token does not verify is answered 401 while the registry
\* holds a connection that an earlier request with a valid token added
C4_Witness ==
    /\ lastWs.path = "/ws/chat"
    /\ lastWs.token = "invalid"
    /\ lastWs.status = "401"
    /\ Len(chatClients) > 0

(***************************************************************************)
(* The game_reviews table.  A review's user_id names a stored user, so the *)
(* JOIN with users in the service's queries keeps every review.            *)
(***************************************************************************)
\* rows[0] of a result: the row with the least rowid; 0 when there is none
First(ids) == IF ids = {} THEN 0 ELSE CHOOSE i \in ids : \A j \in ids : i <= j

ReviewIdsOf(rows) == { r.id : r \in rows }
\* WHERE game_id = ? AND user_id = ?
ReviewsOf(user, game) == { r \in game_reviews : r.user_id = user /\ r.game_id = game }
\* WHERE id = ?
ReviewsById(id) == { r \in game_reviews : r.id = id }
\* an INSERT that the UNIQUE (user_id, game_id) constraint rejects
InsertViolates(user, game) == reviewsUnique /\ ReviewsOf(user, game) # {}
InsertRow(user, game, rating, content) ==
    game_reviews \cup { [ id |-> nextReviewId, game_id |-> game, user_id |-> user,
                          rating |-> rating, content |-> content ] }
UpdateRow(id, rating, content) ==
    { IF r.id = id THEN [ r EXCEPT !.rating = rating, !.content = content ] ELSE r :
        r \in game_reviews }
DeleteRow(id) == { r \in game_reviews : r.id # id }

(***************************************************************************)
(* database.ts: executeQuery.  The PostgreSQL driver returns an object     *)
(* with a rows property; db.query of SQLite returns the array of rows      *)
(* itself, which has no rows property.                                     *)
(***************************************************************************)
executeQuery(q, params, data) ==
    IF isPostgres
    THEN LET pgQuery == ReplaceQuestionMarks(q)
         IN  IF PgRuns(pgQuery, params)
             THEN [ threw |-> FALSE, hasRows |-> TRUE, rows |-> data ]
             ELSE [ threw |-> TRUE, hasRows |-> FALSE, rows |-> {} ]
    ELSE IF SqliteRuns(q, params)
         THEN [ threw |-> FALSE, hasRows |-> FALSE, rows |-> data ]
         ELSE [ threw |-> TRUE, hasRows |-> FALSE, rows |-> {} ]

(***************************************************************************)
(* DatabaseService: query hands the SQL to the driver as it is; insert and *)
(* update build the statement with the placeholders of the backend.        *)
(***************************************************************************)
DbQueryThrows(q, params) ==
    IF dbSystem = "postgres" THEN ~PgRuns(q, params) ELSE ~SqliteRuns(q, params)

DbInsertSql(table, marks) ==
    IF dbSystem = "postgres"
    THEN [ Sql(table, << >>) EXCEPT !.dollars = [ k \in 1..Len(marks) |-> k ] ]
    ELSE Sql(table, marks)

\* a WHERE clause written with '?' keeps its '?' in PostgreSQL mode: the
\* loop replaces the text '$i', which the clause does not contain
DbUpdateSql(table, setMarks, whereMarks, pgWhereMarks) ==
    IF dbSystem = "postgres"
    THEN [ Sql(table, pgWhereMarks) EXCEPT !.dollars = [ k \in 1..Len(setMarks) |-> k ] ]
    ELSE Sql(table, setMarks \o whereMarks)

DbDeleteSql(table, whereMarks) == Sql(table, whereMarks)

(***************************************************************************)
(* routes/reviews.ts                                                       *)
(***************************************************************************)
\* getUserFromToken: null ("nobody") without a cookie and when verify throws
getUserFromToken(t) == IF TokenMissing(t) \/ ~VerifyOk(t) THEN "nobody" ELSE t.user

FreeSlots == { i \in Slots : calls[i].op = "idle" }
\* a new handler takes the first free slot
FreeSlot == { i \in FreeSlots : \A j \in FreeSlots : i <= j }
Pending == Cardinality({ i \in Slots : calls[i].op \in {"POST", "createOrUpdateReview"} })
\* the handlers that may still insert leave room in the id range
MayInsert == nextReviewId + Pending <= MaxReviews

\* the handler ends with this status (a response, or the error thrown)
setJsonResponse(i, c, status) ==
    /\ calls' = [ calls EXCEPT ![i] = Idle ]
    /\ lastCall' = [ c EXCEPT !.status = status, !.pc = "done" ]

\* the handler is suspended at an await
Await(i, c, pc) ==
    /\ calls' = [ calls EXCEPT ![i] = [ c EXCEPT !.pc = pc ] ]
    /\ lastCall' = Idle

\* what no review action touches
socketVars == << chatClients, readyState, onclose, onerror, issued, nextWs, fired, lastWs >>
configVars == << isPostgres, dbSystem, reviewsUnique >>

\* no table or registry change in this step
NoWrite ==
    /\ lastBroadcast' = NoBroadcast
    /\ UNCHANGED << reviewClients, game_reviews, nextReviewId >>

\* router.post("/"), up to the await of the check query
PostReview ==
    \E i \in FreeSlot, t \in Tokens, body \in Bodies :
        /\ MayInsert
        /\ LET user == getUserFromToken(t)
               gameId == body.gameId.text
               c == [ Idle EXCEPT !.op = "POST", !.user = user,
                                  !.body = IF user = "nobody" THEN NoBody ELSE body,
                                  !.pre = First(ReviewIdsOf(ReviewsOf(user, gameId))) ]
               checkResult == executeQuery(checkQuery, << "gameId", "user.id" >>,
                                           ReviewIdsOf(ReviewsOf(user, gameId)))
           IN  IF user = "nobody" THEN setJsonResponse(i, c, "401")
               ELSE IF body.kind # "object" THEN setJsonResponse(i, c, "500")
               ELSE IF Falsy(body.gameId) THEN setJsonResponse(i, c, "400")
               ELSE IF Falsy(body.content) THEN setJsonResponse(i, c, "400")
               ELSE IF ~HasTrim(body.content) THEN setJsonResponse(i, c, "500")
               ELSE IF Trim(body.content) = "" THEN setJsonResponse(i, c, "400")
               ELSE IF Falsy(body.rating) \/ Less(body.rating, 1) \/ Greater(body.rating, 5)
                    THEN setJsonResponse(i, c, "400")
               ELSE IF checkResult.threw THEN setJsonResponse(i, c, "500")
               ELSE Await(i, [ c EXCEPT !.existing =
                                   IF checkResult.hasRows /\ checkResult.rows # {}
                                   THEN First(checkResult.rows) ELSE 0 ],
                          "checkQuery")
        /\ NoWrite
        /\ UNCHANGED << socketVars, configVars, userVars, restVars >>

\* router.delete("/:id"), up to the await of the check query
DeleteReviewRoute ==
    \E i \in FreeSlot, t \in Tokens, reviewId \in ReviewIds :
        /\ LET user == getUserFromToken(t)
               owned == { r \in ReviewsById(reviewId) : r.user_id = user }
               c == [ Idle EXCEPT !.op = "DELETE", !.user = user, !.target = reviewId,
                                  !.pre = First(ReviewIdsOf(owned)) ]
               checkResult == executeQuery(deleteCheckQuery, << "reviewId", "user.id" >>,
                                           ReviewIdsOf(owned))
           IN  IF user = "nobody" THEN setJsonResponse(i, c, "401")
               ELSE IF checkResult.threw THEN setJsonResponse(i, c, "500")
               ELSE IF ~checkResult.hasRows \/ checkResult.rows = {}
                    THEN setJsonResponse(i, c, "404")
               ELSE Await(i, c, "checkQuery")
        /\ NoWrite
        /\ UNCHANGED << socketVars, configVars, userVars, restVars >>

\* POST after the check query: UPDATE the review found, or INSERT
PostWrite(i, c) ==
    LET rating == c.body.rating
        content == c.body.content.text
        gameId == c.body.gameId.text
    IN  IF c.existing # 0
        THEN IF executeQuery(updateQuery, << "rating", "content", "existingReviewId" >>, {}).threw
             THEN setJsonResponse(i, c, "500") /\ NoWrite
             ELSE /\ game_reviews' = UpdateRow(c.existing, rating, content)
                  /\ Await(i, [ c EXCEPT !.events = Append(@, "update"), !.target = c.existing,
                                         !.reviewId = c.existing ], "updateQuery")
                  /\ lastBroadcast' = NoBroadcast
                  /\ UNCHANGED << reviewClients, nextReviewId >>
        ELSE IF \/ executeQuery(insertQuery, << "gameId", "user.id", "rating", "content" >>, {}).threw
                \/ InsertViolates(c.user, gameId)
             THEN setJsonResponse(i, c, "500") /\ NoWrite
             ELSE /\ game_reviews' = InsertRow(c.user, gameId, rating, content)
                  /\ nextReviewId' = nextReviewId + 1
                  /\ Await(i, [ c EXCEPT !.events = Append(@, "insert"),
                                         !.target = nextReviewId ], "insertQuery")
                  /\ lastBroadcast' = NoBroadcast
                  /\ UNCHANGED reviewClients

\* POST after the INSERT: SELECT last_insert_rowid() inside its own try;
\* reviewId 0 stands for the fallback Date.now().toString()
PostLastId(i, c) ==
    LET lastIdResult == executeQuery(lastIdQuery, << >>, { nextReviewId - 1 })
    IN  /\ Await(i, [ c EXCEPT !.reviewId =
                          IF ~lastIdResult.threw /\ lastIdResult.hasRows /\ lastIdResult.rows # {}
                          THEN First(lastIdResult.rows) ELSE 0 ],
                 "lastIdQuery")
        /\ NoWrite

\* POST after the write: the broadcast inside its try/catch, then 201.  The
\* catch covers a broadcast that throws; `raises` lets the call throw before
\* it reaches a client.
PostRespond(i, c, throwers, raises) ==
    /\ lastBroadcast' = IF raises THEN NoBroadcast
                        ELSE BroadcastResult(reviewClients, readyState, throwers)
    /\ reviewClients' = IF raises THEN reviewClients ELSE lastBroadcast'.after
    /\ setJsonResponse(i, [ c EXCEPT !.events = Append(@, "broadcast"), !.raised = raises ], "201")
    /\ UNCHANGED << game_reviews, nextReviewId >>

\* DELETE after the check query found the caller's review
DeleteWrite(i, c) ==
    IF executeQuery(deleteQuery, << "reviewId" >>, {}).threw
    THEN setJsonResponse(i, c, "500") /\ NoWrite
    ELSE /\ game_reviews' = DeleteRow(c.target)
         /\ Await(i, [ c EXCEPT !.events = Append(@, "delete") ], "deleteQuery")
         /\ lastBroadcast' = NoBroadcast
         /\ UNCHANGED << reviewClients, nextReviewId >>

\* a suspended route handler runs to its next await or to its response
RouteResume ==
    \E i \in Slots :
        LET c == calls[i]
        IN  /\ c.op \in {"POST", "DELETE"}
            /\ CASE c.op = "POST" /\ c.pc = "checkQuery" -> PostWrite(i, c)
                 [] c.op = "POST" /\ c.pc = "insertQuery" -> PostLastId(i, c)
                 [] c.op = "POST" /\ c.pc \in {"updateQuery", "lastIdQuery"} ->
                        \E throwers \in SUBSET { w \in MapSockets(reviewClients) :
                                                   readyState[w] = "OPEN" },
                           raises \in BOOLEAN :
                            PostRespond(i, c, throwers, raises)
                 [] c.op = "DELETE" /\ c.pc = "checkQuery" -> DeleteWrite(i, c)
                 [] c.op = "DELETE" /\ c.pc = "deleteQuery" ->
                        setJsonResponse(i, c, "200") /\ NoWrite
            /\ UNCHANGED << socketVars, configVars, userVars, restVars >>

(***************************************************************************)
(* services/game-service.ts                                                *)
(***************************************************************************)
\* createOrUpdateReview, up to the await of getGameById
createOrUpdateReview ==
    \E i \in FreeSlot, userId \in Users, gameId \in GameIds, reviewData \in ReviewData :
        /\ MayInsert
        /\ LET c == [ Idle EXCEPT !.op = "createOrUpdateReview", !.user = userId,
                                  !.body = Body(Str(gameId), Str(reviewData.content),
                                                reviewData.rating),
                                  !.pre = First(ReviewIdsOf(ReviewsOf(userId, gameId))) ]
           IN  IF DbQueryThrows(gameByIdQuery, << "id" >>)
               THEN setJsonResponse(i, c, "DatabaseError")
               ELSE IF gameId \notin Games THEN setJsonResponse(i, c, "NotFoundError")
               ELSE Await(i, c, "getGameById")
        /\ NoWrite
        /\ UNCHANGED << socketVars, configVars, userVars, restVars >>

\* deleteReview, up to the await of db.delete
deleteReview ==
    \E i \in FreeSlot, userId \in Users, reviewId \in ReviewIds :
        /\ LET review == ReviewsById(reviewId)
               owned == { r \in review : r.user_id = userId }
               c == [ Idle EXCEPT !.op = "deleteReview", !.user = userId, !.target = reviewId,
                                  !.pre = First(ReviewIdsOf(owned)) ]
           IN  IF DbQueryThrows(reviewByIdQuery, << "id" >>)
               THEN setJsonResponse(i, c, "DatabaseError")
               ELSE IF review = {} THEN setJsonResponse(i, c, "NotFoundError")
               ELSE IF owned = {} THEN setJsonResponse(i, c, "NotFoundError")
               ELSE Await(i, c, "getReviewById")
        /\ NoWrite
        /\ UNCHANGED << socketVars, configVars, userVars, restVars >>

\* createOrUpdateReview after getUserGameReview: db.update of the review
\* found, or db.insert
ReviewUpsert(i, c) ==
    LET rating == c.body.rating
        content == c.body.content.text
        gameId == c.body.gameId.text
    IN  IF c.existing # 0
        THEN IF DbQueryThrows(DbUpdateSql("game_reviews", << 33, 46, 62 >>, << 75 >>, << 78 >>),
                              << "rating", "content", "updated_at", "id" >>)
             THEN setJsonResponse(i, c, "DatabaseError") /\ NoWrite
             ELSE /\ game_reviews' = UpdateRow(c.existing, rating, content)
                  /\ Await(i, [ c EXCEPT !.events = Append(@, "update"),
                                         !.target = c.existing ], "update")
                  /\ lastBroadcast' = NoBroadcast
                  /\ UNCHANGED << reviewClients, nextReviewId >>
        ELSE IF \/ DbQueryThrows(DbInsertSql("game_reviews", << 93, 96, 99, 102, 105, 108 >>),
                                 << "game_id", "user_id", "rating", "content",
                                    "created_at", "updated_at" >>)
                \/ InsertViolates(c.user, gameId)
             THEN setJsonResponse(i, c, "DatabaseError") /\ NoWrite
             ELSE /\ game_reviews' = InsertRow(c.user, gameId, rating, content)
                  /\ nextReviewId' = nextReviewId + 1
                  /\ Await(i, [ c EXCEPT !.events = Append(@, "insert"),
                                         !.target = nextReviewId ], "insert")
                  /\ lastBroadcast' = NoBroadcast
                  /\ UNCHANGED reviewClients

\* a suspended service call runs to its next await or to its end
ServiceResume ==
    \E i \in Slots :
        LET c == calls[i]
        IN  /\ c.op \in {"createOrUpdateReview", "deleteReview"}
            /\ CASE c.op = "createOrUpdateReview" /\ c.pc = "getGameById" ->
                        \* getUserGameReview
                        /\ IF DbQueryThrows(userGameReviewQuery, << "userId", "gameId" >>)
                           THEN setJsonResponse(i, c, "DatabaseError")
                           ELSE Await(i, [ c EXCEPT !.existing =
                                               First(ReviewIdsOf(ReviewsOf(c.user, c.body.gameId.text))) ],
                                      "getUserGameReview")
                        /\ NoWrite
                 [] c.op = "createOrUpdateReview" /\ c.pc = "getUserGameReview" ->
                        ReviewUpsert(i, c)
                 [] c.op = "createOrUpdateReview" /\ c.pc \in {"update", "insert"} ->
                        \* getReviewById of the review written
                        /\ IF DbQueryThrows(reviewByIdQuery, << "id" >>)
                           THEN setJsonResponse(i, c, "DatabaseError")
                           ELSE IF ReviewsById(c.target) = {}
                           THEN setJsonResponse(i, c, "Error")
                           ELSE setJsonResponse(i, [ c EXCEPT !.reviewId = c.target ], "ok")
                        /\ NoWrite
                 [] c.op = "deleteReview" /\ c.pc = "getReviewById" ->
                        \* db.delete; the call returns result > 0
                        IF DbQueryThrows(DbDeleteSql("game_reviews", << 36 >>), << "reviewId" >>)
                        THEN setJsonResponse(i, c, "DatabaseError") /\ NoWrite
                        ELSE /\ game_reviews' = DeleteRow(c.target)
                             /\ setJsonResponse(i, [ c EXCEPT !.events =
                                                       IF ReviewsById(c.target) # {}
                                                       THEN Append(@, "delete") ELSE @ ], "ok")
                             /\ lastBroadcast' = NoBroadcast
                             /\ UNCHANGED << reviewClients, nextReviewId >>
            /\ UNCHANGED << socketVars, configVars, userVars, restVars >>

(***************************************************************************)
(* The review routes and the review service over one table: two clients    *)
(* are registered for notifications, and the server has connected to one   *)
(* of its two backends.                                                    *)
(***************************************************************************)
InitReviews ==
    /\ reviewClients = << [ id |-> 1, ws |-> 1 ], [ id |-> 2, ws |-> 2 ] >>
    /\ chatClients = << >>
    /\ \E s \in {"OPEN", "CLOSED"} :
          readyState = [ w \in Sockets |-> IF w = 1 THEN "OPEN" ELSE IF w = 2 THEN s ELSE "NONE" ]
    /\ onclose = [ w \in Sockets |-> IF w <= 2 THEN {w} ELSE NoHandler ]
    /\ onerror = [ w \in Sockets |-> IF w <= 2 THEN {w} ELSE NoHandler ]
    /\ issued = {1, 2}
    /\ nextWs = 2
    /\ fired = [ w \in Sockets |-> {} ]
    /\ lastBroadcast = NoBroadcast
    /\ lastWs = NoWsRequest
    /\ isPostgres \in BOOLEAN
    /\ dbSystem = IF isPostgres THEN "postgres" ELSE "sqlite"
    /\ reviewsUnique \in BOOLEAN
    /\ game_reviews = {}
    /\ nextReviewId = 1
    /\ calls = [ i \in Slots |-> Idle ]
    /\ lastCall = Idle
    /\ InitUsersIdle
    /\ InitRestIdle

NextReviews ==
    \/ PostReview
    \/ DeleteReviewRoute
    \/ RouteResume

\* the review routes
SpecReviews == InitReviews /\ [][NextReviews]_vars

NextGameService ==
    \/ createOrUpdateReview
    \/ deleteReview
    \/ ServiceResume

\* the review methods of GameService
SpecGameService == InitReviews /\ [][NextGameService]_vars

(***************************************************************************)
(* The review routes and GameService: properties                           *)
(***************************************************************************)
GameIdMissing(b) == b.gameId.type = "undefined"
ContentMissingOrBlank(b) ==
    \/ b.content.type = "undefined"
    \/ b.content.type = "string" /\ b.content.text \in BlankTexts
RatingMissingOrOutside(b) ==
    \/ b.rating.type = "undefined"
    \/ b.rating.type = "number" /\ (b.rating.tenths < 10 \/ b.rating.tenths > 50)
\* a body with a gameId, a text that is not blank and a rating in 1..5
ValidBody(b) ==
    /\ b.kind = "object"
    /\ b.gameId.type = "string"
    /\ b.content.type = "string" /\ b.content.text \notin BlankTexts
    /\ b.rating.type = "number" /\ b.rating.tenths >= 10 /\ b.rating.tenths <= 50
\* the call that just ended was a submission of a review the caller may make
Submitted(c) ==
    \/ c.op = "POST" /\ c.user # "nobody" /\ ValidBody(c.body)
    \/ c.op = "createOrUpdateReview" /\ c.body.gameId.text \in Games

\* C5: the review table holds at most one review per (user, game) pair, and
\* a submission by a user who already has a review for the game updates that
\* review (same id, new rating and content) instead of inserting a second
\* one, whether it comes through POST /api/reviews or through
\* GameService.createOrUpdateReview.
C5_OneReviewPerUserGame ==
    /\ \A r1, r2 \in game_reviews :
          r1.user_id = r2.user_id /\ r1.game_id = r2.game_id => r1.id = r2.id
    /\ Submitted(lastCall) /\ lastCall.pre # 0 /\ ReviewsById(lastCall.pre) # {} =>
          /\ lastCall.events # << >>
          /\ Head(lastCall.events) = "update"
          /\ lastCall.target = lastCall.pre
          /\ \A r \in ReviewsById(lastCall.pre) :
                r.rating = lastCall.body.rating /\ r.content = lastCall.body.content.text

\* C6: POST /api/reviews answers 401 when no auth_token cookie verifies, and
\* 400 when gameId is missing, content is missing or blank, or rating is
\* missing or outside 1..5; in each of these cases the handler writes no
\* review row and broadcasts nothing.
C6_RejectsBeforeWriting ==
    lastCall.op = "POST" =>
        /\ lastCall.user = "nobody" => lastCall.status = "401" /\ lastCall.events = << >>
        /\ /\ lastCall.user # "nobody"
           /\ \/ GameIdMissing(lastCall.body)
              \/ ContentMissingOrBlank(lastCall.body)
              \/ RatingMissingOrOutside(lastCall.body)
           => lastCall.status = "400" /\ lastCall.events = << >>

\* C7: a POST /api/reviews that passes authentication and validation writes
\* the review, then broadcasts exactly one notification, then answers 201;
\* a broadcast that throws changes neither the answer nor the row written.
C7_WriteBroadcastAnswer ==
    lastCall.op = "POST" /\ lastCall.user # "nobody" /\ ValidBody(lastCall.body) =>
        /\ lastCall.status = "201"
        /\ lastCall.events \in { << "insert", "broadcast" >>, << "update", "broadcast" >> }
        /\ \E r \in ReviewsById(lastCall.target) :
              r.user_id = lastCall.user /\ r.game_id = lastCall.body.gameId.text

\* C8: DELETE /api/reviews/:id and GameService.deleteReview remove the review
\* when it exists and is the caller's, and otherwise report not-found and
\* delete nothing; an unauthenticated DELETE answers 401 and deletes nothing.
C8_DeleteOnlyByAuthor ==
    lastCall.op \in {"DELETE", "deleteReview"} =>
        /\ lastCall.user = "nobody" => lastCall.status = "401" /\ lastCall.events = << >>
        /\ lastCall.user # "nobody" /\ lastCall.pre # 0 =>
              lastCall.status \in {"200", "ok"} /\ ReviewsById(lastCall.target) = {}
        /\ lastCall.user # "nobody" /\ lastCall.pre = 0 =>
              lastCall.status \in {"404", "NotFoundError"} /\ lastCall.events = << >>

(***************************************************************************)
(* services/user-service.ts over DatabaseService                           *)
(***************************************************************************)
Usernames == {"alice", "bob"}
Emails == {"a@x", "b@x"}
Passwords == {"pw1", "pw2"}

\* bcrypt.hash: a salted digest, which is not the password
hashPassword(password) == << "bcrypt", password >>
\* bcrypt.compare inside try/catch
verifyPassword(password, hash) == hash = hashPassword(password)
\* generateToken({ id, username }): the token carries the username
generateToken(user) == user.username

\* the columns of a row that SELECT * FROM users returns
UserColumns == { "id", "username", "email", passwordColumn, "created_at", "updated_at" }
\* const { password, ...userWithoutPassword } = user
WithoutPassword(columns) == columns \ { "password" }
\* user.password of a row read: undefined when the column has another name
NoHash == << >>
PasswordOf(user) == IF passwordColumn = "password" THEN user.password ELSE NoHash
\* a statement naming the column password fails on a table that has none
NoPasswordColumn == passwordColumn # "password"

findByUsername(username) == { u \in users : u.username = username }
findByEmail(email) == { u \in users : u.email = email }
findById(id) == { u \in users : u.id = id }
\* the users table declares username and email UNIQUE
UsersInsertViolates(username, email) ==
    findByUsername(username) # {} \/ findByEmail(email) # {}

FreeUserSlots == { i \in Slots : userCalls[i].op = "idle" }
FreeUserSlot == { i \in FreeUserSlots : \A j \in FreeUserSlots : i <= j }
PendingUsers == Cardinality({ i \in Slots : userCalls[i].op = "createUser" })

\* the call ends: a value returned ("ok") or the error thrown
UserReturn(i, c, status, message) ==
    /\ userCalls' = [ userCalls EXCEPT ![i] = IdleUser ]
    /\ lastUserCall' = [ c EXCEPT !.status = status, !.message = message, !.pc = "done" ]

\* the call returns a user object it has taken the password property out of
UserReturnUser(i, c) ==
    UserReturn(i, [ c EXCEPT !.returned = WithoutPassword(UserColumns) ], "ok", "")

UserAwait(i, c, pc) ==
    /\ userCalls' = [ userCalls EXCEPT ![i] = [ c EXCEPT !.pc = pc ] ]
    /\ lastUserCall' = IdleUser

\* createUser, up to the await of findByUsername
createUser ==
    \E i \in FreeUserSlot, username \in Usernames, email \in Emails, password \in Passwords :
        /\ nextUserId + PendingUsers <= MaxUsers
        /\ LET c == [ IdleUser EXCEPT !.op = "createUser", !.username = username,
                                      !.email = email, !.password = password,
                                      !.known = UsersInsertViolates(username, email) ]
           IN  IF DbQueryThrows(userByUsernameQuery, << "username" >>)
               THEN UserReturn(i, c, "DatabaseError", "Database query error")
               ELSE IF findByUsername(username) # {}
               THEN UserReturn(i, c, "ConflictError", "Username already exists")
               ELSE UserAwait(i, c, "findByUsername")
        /\ UNCHANGED << users, nextUserId, passwordColumn, wsVars, dbVars, restVars >>

\* a suspended createUser runs to its next await or to its end
UserResume ==
    \E i \in Slots :
        LET c == userCalls[i]
        IN  /\ c.op = "createUser"
            /\ CASE c.pc = "findByUsername" ->
                        \* findByEmail, then hashPassword
                        /\ IF DbQueryThrows(userByEmailQuery, << "email" >>)
                           THEN UserReturn(i, c, "DatabaseError", "Database query error")
                           ELSE IF findByEmail(c.email) # {}
                           THEN UserReturn(i, c, "ConflictError", "Email already exists")
                           ELSE UserAwait(i, [ c EXCEPT !.hash = hashPassword(c.password) ],
                                          "hashPassword")
                        /\ UNCHANGED << users, nextUserId >>
                 [] c.pc = "hashPassword" ->
                        \* db.insert("users", ...)
                        IF \/ DbQueryThrows(DbInsertSql("users", << 78, 81, 84, 87, 90 >>),
                                            << "username", "email", "password",
                                               "created_at", "updated_at" >>)
                           \/ NoPasswordColumn
                           \/ UsersInsertViolates(c.username, c.email)
                        THEN /\ UserReturn(i, c, "DatabaseError", "Database query error")
                             /\ UNCHANGED << users, nextUserId >>
                        ELSE /\ users' = users \cup { [ id |-> nextUserId, username |-> c.username,
                                                        email |-> c.email, password |-> c.hash ] }
                             /\ nextUserId' = nextUserId + 1
                             /\ UserAwait(i, [ c EXCEPT !.id = nextUserId, !.inserted = TRUE ],
                                          "insert")
                 [] c.pc = "insert" ->
                        \* findById of the row inserted; the password is left out
                        /\ IF DbQueryThrows(userByIdQuery, << "id" >>)
                           THEN UserReturn(i, c, "DatabaseError", "Database query error")
                           ELSE IF findById(c.id) = {}
                           THEN UserReturn(i, c, "Error", "Failed to retrieve created user")
                           ELSE UserReturnUser(i, c)
                        /\ UNCHANGED << users, nextUserId >>
            /\ UNCHANGED << passwordColumn, wsVars, dbVars, restVars >>

\* authenticate: after findByUsername it works on the row it has read, so
\* its later awaits (verifyPassword, generateToken) are taken in the same step
authenticate ==
    \E i \in FreeUserSlot, username \in Usernames, password \in Passwords :
        /\ LET found == findByUsername(username)
               c == [ IdleUser EXCEPT !.op = "authenticate", !.username = username,
                          !.password = password,
                          !.known = found # {},
                          !.matches = \E u \in found : verifyPassword(password, u.password) ]
           IN  IF DbQueryThrows(userByUsernameQuery, << "username" >>)
               THEN UserReturn(i, c, "DatabaseError", "Database query error")
               ELSE IF found = {}
               THEN UserReturn(i, c, "UnauthorizedError", "Invalid username or password")
               ELSE LET user == CHOOSE u \in found : TRUE
                    IN  IF ~verifyPassword(password, PasswordOf(user))
                        THEN UserReturn(i, c, "UnauthorizedError", "Invalid username or password")
                        ELSE UserReturnUser(i, [ c EXCEPT !.token = generateToken(user) ])
        /\ UNCHANGED << users, nextUserId, passwordColumn, wsVars, dbVars, restVars >>

\* db.update("users", updateData, "id = ?", [id]) of updateUser: the SQL it
\* builds for the columns updated_at, email (if given), password (if given)
UserUpdateSql(email, password) ==
    CASE email = "" /\ password = "" -> DbUpdateSql("users", << 30 >>, << 43 >>, << 44 >>)
      [] email # "" /\ password = "" -> DbUpdateSql("users", << 30, 41 >>, << 54 >>, << 56 >>)
      [] email = "" /\ password # "" -> DbUpdateSql("users", << 30, 44 >>, << 57 >>, << 59 >>)
      [] OTHER -> DbUpdateSql("users", << 30, 41, 55 >>, << 68 >>, << 71 >>)
UserUpdateParams(email, password) ==
    << "updated_at" >> \o (IF email = "" THEN << >> ELSE << "email" >>)
                       \o (IF password = "" THEN << >> ELSE << "password" >>)
                       \o << "id" >>

\* updateUser(id, { email, password }), up to the await of findById; "" is a
\* property that is not given
updateUser ==
    \E i \in FreeUserSlot, id \in 1..MaxUsers, email \in Emails \cup { "" },
       password \in { "", "pw2" } :
        /\ LET c == [ IdleUser EXCEPT !.op = "updateUser", !.id = id, !.email = email,
                                      !.password = password ]
           IN  IF DbQueryThrows(userByIdQuery, << "id" >>)
               THEN UserReturn(i, c, "DatabaseError", "Database query error")
               ELSE IF findById(id) = {}
               THEN UserReturn(i, c, "NotFoundError", "User with ID not found")
               ELSE LET existingUser == CHOOSE u \in findById(id) : TRUE
                    IN  UserAwait(i, [ c EXCEPT !.known = (email # "" /\ email # existingUser.email) ],
                                  "findById")
        /\ UNCHANGED << users, nextUserId, passwordColumn, wsVars, dbVars, restVars >>

\* a suspended updateUser runs to its next await or to its end
UpdateUserResume ==
    \E i \in Slots :
        LET c == userCalls[i]
        IN  /\ c.op = "updateUser"
            /\ CASE c.pc = "findById" ->
                        \* findByEmail when the email changes, then hashPassword
                        /\ IF c.known /\ DbQueryThrows(userByEmailQuery, << "email" >>)
                           THEN UserReturn(i, c, "DatabaseError", "Database query error")
                           ELSE IF c.known /\ findByEmail(c.email) # {}
                           THEN UserReturn(i, c, "ConflictError", "Email already exists")
                           ELSE UserAwait(i, [ c EXCEPT !.hash = IF c.password = "" THEN NoHash
                                                                 ELSE hashPassword(c.password) ],
                                          "findByEmail")
                        /\ UNCHANGED users
                 [] c.pc = "findByEmail" ->
                        \* db.update("users", updateData, "id = ?", [id])
                        IF \/ DbQueryThrows(UserUpdateSql(c.email, c.password),
                                            UserUpdateParams(c.email, c.password))
                           \/ c.password # "" /\ NoPasswordColumn
                           \/ c.email # "" /\ \E u \in findByEmail(c.email) : u.id # c.id
                        THEN /\ UserReturn(i, c, "DatabaseError", "Database query error")
                             /\ UNCHANGED users
                        ELSE /\ users' = { IF u.id = c.id
                                           THEN [ u EXCEPT !.email = IF c.email = "" THEN @ ELSE c.email,
                                                           !.password = IF c.password = "" THEN @ ELSE c.hash ]
                                           ELSE u : u \in users }
                             /\ UserAwait(i, c, "update")
                 [] c.pc = "update" ->
                        \* findById of the row updated; the password is left out
                        /\ IF DbQueryThrows(userByIdQuery, << "id" >>)
                           THEN UserReturn(i, c, "DatabaseError", "Database query error")
                           ELSE IF findById(c.id) = {}
                           THEN UserReturn(i, c, "Error", "Failed to retrieve updated user")
                           ELSE UserReturnUser(i, c)
                        /\ UNCHANGED users
            /\ UNCHANGED << nextUserId, passwordColumn, wsVars, dbVars, restVars >>

\* SELECT * FROM users ORDER BY created_at DESC LIMIT ? OFFSET ?
allUsersQuery == Sql("SELECT * FROM users ORDER BY created_at DESC LIMIT ? OFFSET ?", << 51, 60 >>)

\* getAllUsers(): its two queries only read, and the value it returns is
\* made of the rows of the second one, so they are taken in one step;
\* returned is the set of properties its user objects have
getAllUsers ==
    \E i \in FreeUserSlot :
        /\ LET c == [ IdleUser EXCEPT !.op = "getAllUsers" ]
           IN  IF DbQueryThrows(allUsersQuery, << "limit", "offset" >>)
               THEN UserReturn(i, c, "DatabaseError", "Database query error")
               ELSE UserReturn(i, [ c EXCEPT !.returned = IF users = {} THEN {}
                                                           ELSE WithoutPassword(UserColumns) ],
                               "ok", "")
        /\ UNCHANGED << users, nextUserId, passwordColumn, wsVars, dbVars, restVars >>

\* UserController.getCurrentUser(ctx): stateUser is ctx.state.user?.id, 0 when
\* the middleware has set none; returned is the set of properties of the
\* user object in the body sent
getCurrentUser ==
    \E i \in FreeUserSlot, stateUser \in 0..MaxUsers :
        /\ LET c == [ IdleUser EXCEPT !.op = "getCurrentUser", !.id = stateUser ]
           IN  IF stateUser = 0
               THEN UserReturn(i, c, "UnauthorizedError", "Authentication required")
               ELSE IF DbQueryThrows(userByIdQuery, << "id" >>)
               THEN UserReturn(i, c, "DatabaseError", "Database query error")
               ELSE IF findById(stateUser) = {}
               THEN UserReturn(i, c, "NotFoundError", "User not found")
               ELSE UserReturnUser(i, c)
        /\ UNCHANGED << users, nextUserId, passwordColumn, wsVars, dbVars, restVars >>

\* UserController.getUserById(ctx): id is ctx.params.id, 0 when there is none
getUserById ==
    \E i \in FreeUserSlot, id \in 0..MaxUsers :
        /\ LET c == [ IdleUser EXCEPT !.op = "getUserById", !.id = id ]
           IN  IF id = 0
               THEN UserReturn(i, c, "BadRequestError", "User ID is required")
               ELSE IF DbQueryThrows(userByIdQuery, << "id" >>)
               THEN UserReturn(i, c, "DatabaseError", "Database query error")
               ELSE IF findById(id) = {}
               THEN UserReturn(i, c, "NotFoundError", "User not found")
               ELSE UserReturnUser(i, c)
        /\ UNCHANGED << users, nextUserId, passwordColumn, wsVars, dbVars, restVars >>

\* the service starts connected to one of its backends, on a users table
\* that is empty or holds a user registered earlier
InitUsers ==
    /\ reviewClients = << >>
    /\ chatClients = << >>
    /\ readyState = [ w \in Sockets |-> "NONE" ]
    /\ onclose = [ w \in Sockets |-> NoHandler ]
    /\ onerror = [ w \in Sockets |-> NoHandler ]
    /\ issued = {}
    /\ nextWs = 0
    /\ fired = [ w \in Sockets |-> {} ]
    /\ lastBroadcast = NoBroadcast
    /\ lastWs = NoWsRequest
    /\ dbSystem \in {"postgres", "sqlite"}
    /\ isPostgres = (dbSystem = "postgres")
    /\ reviewsUnique = FALSE
    /\ game_reviews = {}
    /\ nextReviewId = 1
    /\ calls = [ i \in Slots |-> Idle ]
    /\ lastCall = Idle
    /\ \/ users = {} /\ nextUserId = 1
       \/ /\ users = { [ id |-> 1, username |-> "alice", email |-> "a@x",
                          password |-> hashPassword("pw1") ] }
          /\ nextUserId = 2
    /\ userCalls = [ i \in Slots |-> IdleUser ]
    /\ lastUserCall = IdleUser
    /\ passwordColumn \in { "password", "password_hash" }
    /\ InitRestIdle

NextUsers ==
    \/ createUser
    \/ UserResume
    \/ authenticate
    \/ updateUser
    \/ UpdateUserResume
    \/ getAllUsers
    \/ getCurrentUser
    \/ getUserById

\* UserService
SpecUsers == InitUsers /\ [][NextUsers]_vars

(***************************************************************************)
(* UserService: properties                                                 *)
(***************************************************************************)
\* C9: createUser throws ConflictError and inserts nothing when a user with
\* the same username or the same email already exists, and otherwise
\* inserts exactly one user and returns; no two stored users share a
\* username or an email.
C9_CreateUserConflict ==
    /\ \A u1, u2 \in users :
          u1.username = u2.username \/ u1.email = u2.email => u1.id = u2.id
    /\ lastUserCall.op = "createUser" =>
          /\ lastUserCall.known =>
                lastUserCall.status = "ConflictError" /\ ~lastUserCall.inserted
          /\ ~lastUserCall.known =>
                /\ lastUserCall.status = "ok"
                /\ lastUserCall.inserted
                /\ Cardinality({ u \in users : u.username = lastUserCall.username }) = 1

\* C10: authenticate returns a token only when the username exists and the
\* password verifies against the stored hash; for an unknown username and
\* for a wrong password it throws UnauthorizedError with one and the same
\* message.
C10_AuthenticateUniformFailure ==
    lastUserCall.op = "authenticate" =>
        /\ lastUserCall.token # "" => lastUserCall.known /\ lastUserCall.matches
        /\ ~(lastUserCall.known /\ lastUserCall.matches) =>
              /\ lastUserCall.status = "UnauthorizedError"
              /\ lastUserCall.message = "Invalid username or password"

\* C11: no value returned by createUser, authenticate, updateUser or
\* getAllUsers, and no body sent by getCurrentUser or getUserById, contains
\* the user's password field (the column of the users table holding the hash).
C11_NoPasswordReturned ==
    /\ "password" \notin lastUserCall.returned
    /\ passwordColumn \notin lastUserCall.returned

(***************************************************************************)
(* authMiddleware: middleware/auth.ts, middleware/authMiddleware.ts and    *)
(* utils/auth.ts                                                           *)
(***************************************************************************)
AuthVariants == { "middleware/auth.ts", "middleware/authMiddleware.ts", "utils/auth.ts" }

\* who made a token: the login and register routes of routes/auth.ts (one
\* version signs HS512 with a generated key, the others HS256 with
\* JWT_SECRET), generateToken of utils/auth.ts, somebody who signs with the
\* text "[object CryptoKey]", or nobody (a string that is no JWT)
Issuers == { "routes/auth.ts HS512", "routes/auth.ts HS256", "generateToken", "forged", "garbage" }
NoAuthToken == [ issuer |-> "none", user |-> "nobody", expired |-> FALSE ]
AuthTokens == [ issuer : Issuers, user : Users, expired : BOOLEAN ]

TokenAlg(t) == IF t.issuer = "routes/auth.ts HS512" THEN "HS512" ELSE "HS256"
TokenKey(t) ==
    CASE t.issuer = "routes/auth.ts HS512" -> "generateKey"
      [] t.issuer \in { "routes/auth.ts HS256", "generateToken" } -> "JWT_SECRET"
      [] t.issuer = "forged" -> "[object CryptoKey]"
      [] OTHER -> "none"
\* the claims of the payload; a user's id is written as the user
Payload(t) ==
    [ id |-> IF t.issuer \in { "routes/auth.ts HS512", "forged" } THEN t.user ELSE "undefined",
      user_id |-> IF t.issuer = "routes/auth.ts HS256" THEN t.user ELSE "undefined",
      sub |-> IF t.issuer = "generateToken" THEN t.user ELSE "undefined",
      username |-> t.user ]
\* the user the server gave the token to
IssuedTo(t) ==
    IF t.issuer \in { "routes/auth.ts HS512", "routes/auth.ts HS256", "generateToken" }
    THEN t.user ELSE "nobody"

\* the HMAC SHA-256 key a variant verifies with: middleware/auth.ts encodes
\* the CryptoKey object that getJwtSecret() returns, i.e. its text
MiddlewareKey(variant) ==
    IF variant = "middleware/auth.ts" THEN "[object CryptoKey]" ELSE "JWT_SECRET"

\* djwt verify(token, key): TRUE when it returns the payload
verify(t, key) ==
    /\ t.issuer \in Issuers \ { "garbage" }
    /\ TokenAlg(t) = "HS256"
    /\ TokenKey(t) = key
    /\ ~t.expired

\* what a variant hands to verify: the text after "Bearer "; extractToken of
\* utils/auth.ts falls back to cookies.get(...), a Promise, which is no JWT
TokenRead(c) == IF c.header = "bearer" THEN c.token ELSE NoAuthToken

\* ctx.state.user as the variant sets it from the payload
StateUser(variant, payload) ==
    CASE variant = "middleware/auth.ts" -> [ id |-> payload.id, username |-> payload.username ]
      [] variant = "middleware/authMiddleware.ts" ->
            [ id |-> payload.user_id, username |-> payload.username ]
      [] OTHER -> [ id |-> payload.sub, username |-> payload.username ]

\* how a variant refuses: a 401 response, or UnauthorizedError thrown
Refusal(variant) == IF variant = "utils/auth.ts" THEN "UnauthorizedError" ELSE "401"

AuthEnd(c, status) == authCall' = [ c EXCEPT !.pc = "done", !.status = status ]

\* a request reaches an authMiddleware, which runs to its first await
authMiddleware ==
    \E variant \in AuthVariants, header \in { "none", "basic", "bearer" },
       token \in AuthTokens, cookie \in BOOLEAN, throws \in BOOLEAN :
        /\ authCall.pc \in { "idle", "done" }
        /\ header # "bearer" => token = [ issuer |-> "garbage", user |-> "alice", expired |-> FALSE ]
        /\ LET c == [ IdleAuth EXCEPT !.variant = variant, !.header = header,
                          !.token = IF header = "bearer" THEN token ELSE NoAuthToken,
                          !.cookie = cookie, !.throws = throws ]
           IN  IF variant # "utils/auth.ts" /\ header # "bearer"
               THEN AuthEnd(c, "401")
               ELSE authCall' = [ c EXCEPT !.pc = "verify" ]
        /\ UNCHANGED << wsVars, dbVars, userVars, errVars, svcVars, fnVars, msgVars >>

\* the middleware goes on after verify, and after the handler
AuthResume ==
    LET c == authCall
    IN  /\ CASE c.pc = "verify" ->
                    IF verify(TokenRead(c), MiddlewareKey(c.variant))
                    THEN authCall' = [ c EXCEPT !.pc = "next", !.verified = TRUE,
                                           !.stateUser = StateUser(c.variant, Payload(TokenRead(c))),
                                           !.runs = c.runs + 1 ]
                    ELSE AuthEnd(c, Refusal(c.variant))
             [] c.pc = "next" ->
                    \* await next() returns, or throws into the catch around it
                    IF c.throws THEN AuthEnd(c, Refusal(c.variant)) ELSE AuthEnd(c, "200")
             [] OTHER -> FALSE
        /\ UNCHANGED << wsVars, dbVars, userVars, errVars, svcVars, fnVars, msgVars >>

NextAuth ==
    \/ authMiddleware
    \/ AuthResume

\* the three authMiddleware variants
SpecAuth == InitSockets /\ [][NextAuth]_vars

\* the request carries a token that the variant's verification accepts
CarriesVerifyingToken(c) ==
    c.header = "bearer" /\ verify(c.token, MiddlewareKey(c.variant))

\* C12: the handler runs only for a request whose token verifies, and then
\* exactly once with ctx.state.user set to the id and username of the user
\* the token was issued to; a request with no token or with a token that
\* fails verification is refused (401 or UnauthorizedError) and the handler
\* never runs.
C12_HandlerOnlyForTokenOwner ==
    /\ authCall.runs > 0 =>
          /\ CarriesVerifyingToken(authCall)
          /\ authCall.runs = 1
          /\ authCall.stateUser = [ id |-> IssuedTo(authCall.token),
                                    username |-> IssuedTo(authCall.token) ]
    /\ authCall.pc = "done" /\ ~CarriesVerifyingToken(authCall) =>
          /\ authCall.status \in { "401", "UnauthorizedError" }
          /\ authCall.runs = 0

(***************************************************************************)
(* middleware/error.ts: errorMiddleware; utils/errors.ts                   *)
(***************************************************************************)
\* new <Class>(message, details) of utils/errors.ts, and new ApiError(...)
\* with a status and a code of the caller's
ApiErrors ==
    { [ kind |-> "ApiError", status |-> e[1], code |-> e[2], message |-> "m", details |-> d ] :
        e \in { << 400, "BAD_REQUEST" >>, << 401, "UNAUTHORIZED" >>, << 403, "FORBIDDEN" >>,
                << 404, "NOT_FOUND" >>, << 409, "CONFLICT" >>, << 422, "UNPROCESSABLE_ENTITY" >>,
                << 500, "INTERNAL_SERVER_ERROR" >>, << 503, "SERVICE_UNAVAILABLE" >>,
                << 500, "DATABASE_ERROR" >>, << 418, "CUSTOM" >> },
        d \in BOOLEAN }
\* the errors of oak (ctx.throw, createHttpError): isHttpError is true of them
HttpErrors ==
    { [ kind |-> "HttpError", status |-> st, code |-> "", message |-> "m", details |-> FALSE ] :
        st \in { 400, 404, 415, 500 } }
\* any other Error, and a thrown value that is no Error
OtherErrors ==
    { [ kind |-> "Error", status |-> 0, code |-> "", message |-> "m", details |-> FALSE ],
      [ kind |-> "value", status |-> 0, code |-> "", message |-> "", details |-> FALSE ] }
Errors == ApiErrors \cup HttpErrors \cup OtherErrors

\* `HTTP_${error.status}`
HttpCode(status) ==
    CASE status = 400 -> "HTTP_400" [] status = 404 -> "HTTP_404"
      [] status = 415 -> "HTTP_415" [] OTHER -> "HTTP_500"

\* the responses a downstream middleware can leave: no body, a body that
\* is falsy (an empty string), a body
Responses ==
    [ status : { 200, 201, 404 }, body : { [ kind |-> "none" ], [ kind |-> "empty" ], [ kind |-> "data" ] } ]

\* !ctx.response.body
BodyFalsy(body) == body.kind \in { "none", "empty" }

\* a check that never takes a response for unanswered
UnansweredNever(response) == FALSE
\* ctx.response.status === 404 && !ctx.response.body
Unanswered(response) == response.status = 404 /\ BodyFalsy(response.body)

\* the catch block: status, code and message by the kind of the error
ErrorResponse(error) ==
    LET status == IF error.kind \in { "ApiError", "HttpError" } THEN error.status ELSE 500
        code == CASE error.kind = "ApiError" -> error.code
                  [] error.kind = "HttpError" -> HttpCode(error.status)
                  [] OTHER -> "INTERNAL_SERVER_ERROR"
        message == IF error.kind = "value" THEN "Internal server error" ELSE error.message
    IN  [ status |-> status,
          body |-> [ kind |-> "error", success |-> FALSE, code |-> code, message |-> message,
                     details |-> error.kind = "ApiError" /\ error.details ] ]

\* new NotFoundError("Endpoint not found")
EndpointNotFound ==
    [ kind |-> "ApiError", status |-> 404, code |-> "NOT_FOUND", message |-> "Endpoint not found",
      details |-> FALSE ]

\* a request enters errorMiddleware, which awaits next()
errorMiddleware ==
    /\ errCall.pc \in { "idle", "done" }
    /\ errCall' = [ IdleError EXCEPT !.pc = "next" ]
    /\ UNCHANGED << wsVars, dbVars, userVars, authVars, svcVars, fnVars, msgVars >>

\* the downstream middleware and the route handler: they leave a response
\* and return, or throw
Downstream ==
    \E response \in Responses, error \in Errors \cup { NoError } :
        /\ errCall.pc = "next"
        /\ errCall' = [ errCall EXCEPT !.pc = "after", !.thrown = error,
                                       !.downstream = response, !.response = response ]
        /\ UNCHANGED << wsVars, dbVars, userVars, authVars, svcVars, fnVars, msgVars >>

\* errorMiddleware after next(): the 404 check, the catch block
ErrorResume ==
    /\ errCall.pc = "after"
    /\ LET caught == IF errCall.thrown # NoError THEN errCall.thrown
                     ELSE IF Unanswered(errCall.response) THEN EndpointNotFound
                     ELSE NoError
       IN  errCall' = [ errCall EXCEPT !.pc = "done",
                          !.response = IF caught = NoError THEN @ ELSE ErrorResponse(caught) ]
    /\ UNCHANGED << wsVars, dbVars, userVars, authVars, svcVars, fnVars, msgVars >>

NextError ==
    \/ errorMiddleware
    \/ Downstream
    \/ ErrorResume

\* errorMiddleware
SpecError == InitSockets /\ [][NextError]_vars

tableVars == << reviewsUnique, game_reviews, nextReviewId, calls, lastCall >>
otherVars == << wsVars, tableVars, userVars, authVars, errVars, fnVars, msgVars >>

InitReturn(c) == initCall' = [ c EXCEPT !.pc = "done", !.result = "returned" ]
InitThrow(c, error) == initCall' = [ c EXCEPT !.pc = "done", !.result = error ]
InitAwait(c, pc) == initCall' = [ c EXCEPT !.pc = pc ]

\* DatabaseService.initialize(), up to await pool.connect()
initialize ==
    \E world \in Worlds :
        /\ initCall.pc \in { "idle", "done" }
        /\ InitAwait([ IdleInit EXCEPT !.op = "initialize", !.world = world ], "connect")
        /\ UNCHANGED << dbService, db, legacyService, driver, isPostgres, dbSystem >>

\* the catch block that goes on whatever new DB(...) and the schema do
InitializeSqliteAlways(c) ==
    /\ dbService' = [ dbService EXCEPT !.db = "DB" ]
    /\ dbSystem' = "sqlite"
    /\ driver' = [ driver EXCEPT !.sqlite = c.world.sqliteOpens ]
    /\ InitReturn(c)

\* the catch block of initialize: new DB(...), then initializeSqliteSchema
\* up to its await
InitializeSqlite(c) ==
    IF c.world.sqliteOpens
    THEN /\ dbService' = [ dbService EXCEPT !.db = "DB" ]
         /\ dbSystem' = "sqlite"
         /\ driver' = [ driver EXCEPT !.sqlite = TRUE ]
         /\ InitAwait(c, "sqliteSchema")
    ELSE /\ InitThrow(c, "DatabaseError")
         /\ UNCHANGED << dbService, dbSystem, driver >>

\* a suspended initialize runs to its next await or to its end
InitializeResume ==
    LET c == initCall
    IN  /\ c.op = "initialize"
        /\ CASE c.pc = "connect" ->
                    \* pool.connect() and SELECT 1, then initializePostgresSchema
                    IF c.world.pgConnects
                    THEN /\ dbService' = [ dbService EXCEPT !.db = "Pool" ]
                         /\ dbSystem' = "postgres"
                         /\ driver' = [ driver EXCEPT !.pool = TRUE ]
                         /\ InitAwait(c, "pgSchema")
                    ELSE InitializeSqlite(c)
             [] c.pc = "pgSchema" ->
                    IF c.world.pgSchema
                    THEN InitReturn(c) /\ UNCHANGED << dbService, dbSystem, driver >>
                    ELSE InitializeSqlite(c)
             [] c.pc = "sqliteSchema" ->
                    /\ IF c.world.sqliteSchema THEN InitReturn(c)
                       ELSE InitThrow(c, "DatabaseError")
                    /\ UNCHANGED << dbService, dbSystem, driver >>
             [] OTHER -> FALSE
        /\ UNCHANGED << db, legacyService, isPostgres >>

\* DatabaseService.init() of db/database-service.ts, up to the await of the
\* race between pgPool.connect() and the timeout; a second call returns at
\* once
init ==
    \E world \in Worlds :
        /\ \/ initCall.pc = "idle"
           \/ initCall.pc = "done" /\ initCall.op = "init" /\ legacyService.initialized
        /\ IF legacyService.initialized
           THEN /\ InitReturn(initCall)
                /\ UNCHANGED legacyService
           ELSE /\ legacyService' = [ legacyService EXCEPT !.pgPool = "Pool" ]
                /\ InitAwait([ IdleInit EXCEPT !.op = "init", !.world = world ], "connect")
        /\ UNCHANGED << dbService, db, driver, isPostgres, dbSystem >>

\* the catch block of init: new DB(...), up to await Deno.readTextFile
InitSqlite(c) ==
    IF c.world.sqliteOpens
    THEN /\ legacyService' = [ legacyService EXCEPT !.sqliteDb = "DB", !.dbSystem = "sqlite" ]
         /\ driver' = [ driver EXCEPT !.sqlite = TRUE ]
         /\ InitAwait(c, "sqliteSchema")
    ELSE /\ InitThrow(c, "DatabaseError")
         /\ UNCHANGED << legacyService, driver >>

InitResume ==
    LET c == initCall
    IN  /\ c.op = "init"
        /\ CASE c.pc = "connect" ->
                    IF c.world.pgConnects
                    THEN /\ legacyService' = [ legacyService EXCEPT !.dbSystem = "postgres" ]
                         /\ driver' = [ driver EXCEPT !.pool = TRUE ]
                         /\ InitAwait(c, "pgSchema")
                    ELSE InitSqlite(c)
             [] c.pc = "pgSchema" ->
                    IF c.world.pgSchema
                    THEN /\ legacyService' = [ legacyService EXCEPT !.initialized = TRUE ]
                         /\ InitReturn(c)
                         /\ UNCHANGED driver
                    ELSE InitSqlite(c)
             [] c.pc = "sqliteSchema" ->
                    /\ IF c.world.sqliteSchema
                       THEN /\ legacyService' = [ legacyService EXCEPT !.initialized = TRUE ]
                            /\ InitReturn(c)
                       ELSE /\ InitThrow(c, "DatabaseError")
                            /\ UNCHANGED legacyService
                    /\ UNCHANGED driver
             [] OTHER -> FALSE
        /\ UNCHANGED << dbService, db, isPostgres, dbSystem >>

\* initDatabase() of database.ts, up to the await of the race
initDatabase ==
    \E world \in Worlds :
        /\ initCall.pc = "idle"
        /\ InitAwait([ IdleInit EXCEPT !.op = "initDatabase", !.world = world ], "connect")
        /\ UNCHANGED << dbService, db, legacyService, driver, isPostgres, dbSystem >>

\* the catch block of initDatabase: isPostgres = false; db = new DB(...), an
\* exception of which leaves initDatabase; up to await Deno.readTextFile
InitDatabaseSqlite(c) ==
    /\ isPostgres' = FALSE
    /\ IF c.world.sqliteOpens
       THEN /\ db' = "DB"
            /\ driver' = [ driver EXCEPT !.sqlite = TRUE ]
            /\ InitAwait(c, "sqliteSchema")
       ELSE /\ InitThrow(c, "Error")
            /\ UNCHANGED << db, driver >>

InitDatabaseResume ==
    LET c == initCall
    IN  /\ c.op = "initDatabase"
        /\ CASE c.pc = "connect" ->
                    IF c.world.pgConnects
                    THEN /\ db' = "Pool"
                         /\ isPostgres' = TRUE
                         /\ driver' = [ driver EXCEPT !.pool = TRUE ]
                         /\ InitAwait(c, "pgSchema")
                    ELSE InitDatabaseSqlite(c)
             [] c.pc = "pgSchema" ->
                    IF c.world.pgSchema
                    THEN InitReturn(c) /\ UNCHANGED << db, isPostgres, driver >>
                    ELSE InitDatabaseSqlite(c)
             [] c.pc = "sqliteSchema" ->
                    \* the schema error is logged, and db returned
                    InitReturn(c) /\ UNCHANGED << db, isPostgres, driver >>
             [] OTHER -> FALSE
        /\ UNCHANGED << dbService, legacyService, dbSystem >>

\* the process is started again
Restart ==
    /\ initCall.pc = "done"
    /\ dbService' = NewService
    /\ dbSystem' = "null"
    /\ db' = "undefined"
    /\ isPostgres' = TRUE
    /\ legacyService' = NewLegacyService
    /\ driver' = NoConnections
    /\ initCall' = IdleInit
    /\ UNCHANGED << svcCalls, lastSvcCall >>

\* the process has just started: nothing is connected
InitInit ==
    /\ reviewClients = << >>
    /\ chatClients = << >>
    /\ readyState = [ w \in Sockets |-> "NONE" ]
    /\ onclose = [ w \in Sockets |-> NoHandler ]
    /\ onerror = [ w \in Sockets |-> NoHandler ]
    /\ issued = {}
    /\ nextWs = 0
    /\ fired = [ w \in Sockets |-> {} ]
    /\ lastBroadcast = NoBroadcast
    /\ lastWs = NoWsRequest
    /\ isPostgres = TRUE
    /\ dbSystem = "null"
    /\ reviewsUnique = FALSE
    /\ game_reviews = {}
    /\ nextReviewId = 1
    /\ calls = [ i \in Slots |-> Idle ]
    /\ lastCall = Idle
    /\ InitUsersIdle
    /\ InitAuthIdle
    /\ InitErrorIdle
    /\ InitFnIdle
    /\ InitMsgIdle
    /\ dbService = NewService
    /\ db = "undefined"
    /\ legacyService = NewLegacyService
    /\ initCall = IdleInit
    /\ driver = NoConnections
    /\ svcCalls = [ i \in Slots |-> IdleSvc ]
    /\ lastSvcCall = IdleSvc

NextInit ==
    \/ (initialize /\ UNCHANGED << otherVars, svcCalls, lastSvcCall >>)
    \/ (InitializeResume /\ UNCHANGED << otherVars, svcCalls, lastSvcCall >>)
    \/ (init /\ UNCHANGED << otherVars, svcCalls, lastSvcCall >>)
    \/ (InitResume /\ UNCHANGED << otherVars, svcCalls, lastSvcCall >>)
    \/ (initDatabase /\ UNCHANGED << otherVars, svcCalls, lastSvcCall >>)
    \/ (InitDatabaseResume /\ UNCHANGED << otherVars, svcCalls, lastSvcCall >>)
    \/ (Restart /\ UNCHANGED otherVars)

\* the three initialisers
SpecInit == InitInit /\ [][NextInit]_vars

\* PostgreSQL failed in the call: its connection or its schema
PgFailed(c) == ~c.world.pgConnects \/ ~c.world.pgSchema
SqliteFailed(c) == ~c.world.sqliteOpens \/ ~c.world.sqliteSchema

\* the backend an initialiser has recorded, and the connection it has stored
RecordedBackend(c) ==
    CASE c.op = "initialize" -> dbSystem
      [] c.op = "init" -> legacyService.dbSystem
      [] OTHER -> IF isPostgres THEN "postgres" ELSE "sqlite"
StoredConnection(c) ==
    CASE c.op = "initialize" -> dbService.db
      [] c.op = "init" -> IF legacyService.dbSystem = "postgres" THEN legacyService.pgPool
                          ELSE legacyService.sqliteDb
      [] OTHER -> db

\* C14: PostgreSQL is tried first and SQLite is the fallback when the
\* PostgreSQL connection or schema initialisation fails; initialize throws
\* DatabaseError only when both backends fail; on every normal return the
\* stored connection and the recorded backend name the same backend, and
\* that backend is connected.
C14_FallbackAndConsistency ==
    LET c == initCall
    IN  /\ c.pc = "sqliteSchema" => PgFailed(c)
        /\ c.pc = "done" /\ c.result = "returned" =>
              /\ RecordedBackend(c) = IF PgFailed(c) THEN "sqlite" ELSE "postgres"
              /\ RecordedBackend(c) = "postgres" =>
                    StoredConnection(c) = "Pool" /\ driver.pool
              /\ RecordedBackend(c) = "sqlite" =>
                    StoredConnection(c) = "DB" /\ driver.sqlite
        /\ c.pc = "done" /\ c.op = "initialize" /\ c.result = "DatabaseError" =>
              PgFailed(c) /\ SqliteFailed(c)

\* initialize has returned on SQLite after the PostgreSQL schema failed on
\* an open pool
C14_Witness ==
    /\ initCall.pc = "done" /\ initCall.op = "initialize" /\ initCall.result = "returned"
    /\ initCall.world.pgConnects /\ ~initCall.world.pgSchema
    /\ dbSystem = "sqlite" /\ dbService.db = "DB"

(***************************************************************************)
(* services/database.ts: transactions, close, query                        *)
(***************************************************************************)
\* the clients of the pool (DATABASE.PG_POOL_SIZE); 0 stands for the one
\* connection of SQLite in driver.transactions
PG_POOL_SIZE == 2
PoolClients == 1..PG_POOL_SIZE

Snapshot ==
    [ db |-> dbService.db, dbSystem |-> dbSystem, client |-> dbService.client,
      inTransaction |-> dbService.inTransaction, transactions |-> driver.transactions ]

FreeSvcSlots == { i \in Slots : svcCalls[i].op = "idle" }
FreeSvcSlot == { i \in FreeSvcSlots : \A j \in FreeSvcSlots : i <= j }

\* the clients pool.connect() can hand out: those nobody holds
HeldClients ==
    driver.transactions \cup { svcCalls[i].client : i \in Slots } \cup { dbService.client }
FreeClients == { k \in PoolClients : k \notin HeldClients }
FreeClient == { k \in FreeClients : \A j \in FreeClients : k <= j }

SvcReturn(i, c, result) ==
    /\ svcCalls' = [ svcCalls EXCEPT ![i] = IdleSvc ]
    /\ lastSvcCall' = [ c EXCEPT !.pc = "done", !.result = result ]
SvcAwait(i, c, pc) ==
    /\ svcCalls' = [ svcCalls EXCEPT ![i] = [ c EXCEPT !.pc = pc ] ]
    /\ lastSvcCall' = IdleSvc

\* the check `if (this.inTransaction)` of beginTransaction left out
InTransactionUnchecked == FALSE
\* this.inTransaction, as beginTransaction reads it
InTransactionCheck == dbService.inTransaction

\* beginTransaction(), up to await pool.connect(); on SQLite to its end
beginTransaction ==
    \E i \in FreeSvcSlot, fails \in BOOLEAN :
        LET c == [ IdleSvc EXCEPT !.op = "beginTransaction", !.before = Snapshot ]
        IN  IF dbService.db = "null"
            THEN /\ ~fails
                 /\ SvcReturn(i, c, "Database not initialized")
                 /\ UNCHANGED << dbService, driver >>
            ELSE IF InTransactionCheck
            THEN /\ ~fails
                 /\ SvcReturn(i, c, "Transaction already in progress")
                 /\ UNCHANGED << dbService, driver >>
            ELSE IF dbSystem = "postgres"
            THEN /\ ~fails
                 /\ SvcAwait(i, c, "connect")
                 /\ UNCHANGED << dbService, driver >>
            ELSE IF fails \/ 0 \in driver.transactions
            THEN /\ SvcReturn(i, c, "Failed to begin transaction")
                 /\ UNCHANGED << dbService, driver >>
            ELSE /\ driver' = [ driver EXCEPT !.transactions = @ \cup { 0 } ]
                 /\ dbService' = [ dbService EXCEPT !.inTransaction = TRUE ]
                 /\ SvcReturn(i, c, "returned")

\* commitTransaction() and rollbackTransaction(), up to the await of the
\* statement; on SQLite to the end
EndTransaction(op, statement) ==
    \E i \in FreeSvcSlot, fails \in BOOLEAN :
        LET c == [ IdleSvc EXCEPT !.op = op, !.before = Snapshot ]
        IN  IF dbService.db = "null"
            THEN /\ ~fails
                 /\ SvcReturn(i, c, "Database not initialized")
                 /\ UNCHANGED << dbService, driver >>
            ELSE IF ~dbService.inTransaction
            THEN /\ ~fails
                 /\ SvcReturn(i, c, IF op = "commitTransaction" THEN "No transaction in progress"
                                    ELSE "returned")
                 /\ UNCHANGED << dbService, driver >>
            ELSE IF dbSystem = "postgres"
            THEN /\ ~fails
                 /\ IF dbService.client = NullClient
                    THEN SvcReturn(i, c, "Failed to " \o statement \o " transaction")
                    ELSE SvcAwait(i, [ c EXCEPT !.client = dbService.client ], statement)
                 /\ UNCHANGED << dbService, driver >>
            ELSE IF fails \/ 0 \notin driver.transactions
            THEN /\ SvcReturn(i, c, "Failed to " \o statement \o " transaction")
                 /\ UNCHANGED << dbService, driver >>
            ELSE /\ driver' = [ driver EXCEPT !.transactions = @ \ { 0 } ]
                 /\ dbService' = [ dbService EXCEPT !.inTransaction = FALSE ]
                 /\ SvcReturn(i, [ c EXCEPT !.ended = TRUE ], "returned")

commitTransaction == EndTransaction("commitTransaction", "commit")
rollbackTransaction == EndTransaction("rollbackTransaction", "rollback")

\* close(), up to its first await; on SQLite without a transaction to its end
close ==
    \E i \in FreeSvcSlot, fails \in BOOLEAN :
        LET c == [ IdleSvc EXCEPT !.op = "close", !.before = Snapshot ]
        IN  IF dbService.db = "null"
            THEN /\ ~fails
                 /\ SvcReturn(i, c, "returned")
                 /\ UNCHANGED << dbService, dbSystem, driver >>
            ELSE IF dbService.inTransaction /\ dbSystem = "postgres"
            THEN \* await this.rollbackTransaction(): ROLLBACK is sent, or it throws
                 /\ ~fails
                 /\ IF dbService.client = NullClient
                    THEN SvcReturn(i, c, "error logged")
                    ELSE SvcAwait(i, [ c EXCEPT !.client = dbService.client ], "rollback")
                 /\ UNCHANGED << dbService, dbSystem, driver >>
            ELSE IF dbService.inTransaction
            THEN \* SQLite: ROLLBACK runs before the await returns
                 IF fails \/ 0 \notin driver.transactions
                 THEN /\ SvcAwait(i, c, "rollbackFailed")
                      /\ UNCHANGED << dbService, dbSystem, driver >>
                 ELSE /\ driver' = [ driver EXCEPT !.transactions = @ \ { 0 } ]
                      /\ dbService' = [ dbService EXCEPT !.inTransaction = FALSE ]
                      /\ SvcAwait(i, [ c EXCEPT !.ended = TRUE ], "rolledBack")
                      /\ UNCHANGED dbSystem
            ELSE IF dbSystem = "postgres"
            THEN \* release of a client left behind, then await pool.end()
                 /\ ~fails
                 /\ dbService' = [ dbService EXCEPT !.client = NullClient ]
                 /\ SvcAwait(i, c, "end")
                 /\ UNCHANGED << dbSystem, driver >>
            ELSE IF fails
            THEN /\ SvcReturn(i, c, "error logged")
                 /\ UNCHANGED << dbService, dbSystem, driver >>
            ELSE /\ dbService' = [ dbService EXCEPT !.db = "null" ]
                 /\ dbSystem' = "null"
                 /\ driver' = [ driver EXCEPT !.sqlite = FALSE, !.transactions = @ \ { 0 } ]
                 /\ SvcReturn(i, c, "returned")

\* query(sql, params), and with it insert, update and delete, which make
\* the same check and then call query: whether it gets past the check
query ==
    \E i \in FreeSvcSlot :
        LET c == [ IdleSvc EXCEPT !.op = "query", !.before = Snapshot ]
        IN  /\ IF dbService.db = "null"
               THEN SvcReturn(i, c, "Database not initialized")
               ELSE SvcReturn(i, c, "ran")
            /\ UNCHANGED << dbService, dbSystem, driver >>

\* the end of a COMMIT or ROLLBACK on the client it was sent to:
\* this.client.release() throws when another call has set this.client to null
StatementDone(i, c, statement) ==
    IF dbService.client = NullClient
    THEN /\ driver' = [ driver EXCEPT !.transactions = @ \ { c.client } ]
         /\ SvcReturn(i, [ c EXCEPT !.ended = c.client \in driver.transactions ],
                      "Failed to " \o statement \o " transaction")
         /\ UNCHANGED dbService
    ELSE /\ driver' = [ driver EXCEPT !.transactions = @ \ { c.client } ]
         /\ dbService' = [ dbService EXCEPT !.client = NullClient, !.inTransaction = FALSE ]
         /\ SvcReturn(i, [ c EXCEPT !.ended = c.client \in driver.transactions ], "returned")

\* a client runs its statements in the order they were sent: a COMMIT or
\* ROLLBACK sent to a client ends after the BEGIN sent to it before
StatementsInOrder(c) ==
    c.pc \in { "commit", "rollback" } =>
        \A j \in Slots : ~(svcCalls[j].pc = "begin" /\ svcCalls[j].client = c.client)

\* a suspended call of dbService runs to its next await or to its end;
\* `fails` is whether the driver call it was waiting for threw
ServiceCallResume ==
    \E i \in Slots, fails \in BOOLEAN :
        LET c == svcCalls[i]
        IN  /\ c.op # "idle"
            /\ StatementsInOrder(c)
            /\ CASE c.op = "beginTransaction" /\ c.pc = "connect" ->
                        \* this.client = await pool.connect(); await BEGIN
                        /\ IF fails
                           THEN /\ SvcReturn(i, c, "Failed to begin transaction")
                                /\ UNCHANGED dbService
                           ELSE \E k \in FreeClient :
                                   /\ dbService' = [ dbService EXCEPT !.client = k ]
                                   /\ SvcAwait(i, [ c EXCEPT !.client = k ], "begin")
                        /\ UNCHANGED << dbSystem, driver >>
                 [] c.op = "beginTransaction" /\ c.pc = "begin" ->
                        /\ IF fails
                           THEN /\ SvcReturn(i, c, "Failed to begin transaction")
                                /\ UNCHANGED << dbService, driver >>
                           ELSE /\ driver' = [ driver EXCEPT !.transactions = @ \cup { c.client } ]
                                /\ dbService' = [ dbService EXCEPT !.inTransaction = TRUE ]
                                /\ SvcReturn(i, c, "returned")
                        /\ UNCHANGED dbSystem
                 [] c.op = "commitTransaction" /\ c.pc = "commit" ->
                        /\ IF fails
                           THEN /\ SvcReturn(i, c, "Failed to commit transaction")
                                /\ UNCHANGED << dbService, driver >>
                           ELSE StatementDone(i, c, "commit")
                        /\ UNCHANGED dbSystem
                 [] c.op = "rollbackTransaction" /\ c.pc = "rollback" ->
                        /\ IF fails
                           THEN /\ SvcReturn(i, c, "Failed to rollback transaction")
                                /\ UNCHANGED << dbService, driver >>
                           ELSE StatementDone(i, c, "rollback")
                        /\ UNCHANGED dbSystem
                 [] c.op = "close" /\ c.pc = "rollback" ->
                        \* ROLLBACK of rollbackTransaction, then await pool.end()
                        /\ IF fails \/ dbService.client = NullClient
                           THEN /\ SvcReturn(i, c, "error logged")
                                /\ UNCHANGED << dbService, driver >>
                           ELSE /\ driver' = [ driver EXCEPT !.transactions = @ \ { c.client } ]
                                /\ dbService' = [ dbService EXCEPT !.client = NullClient,
                                                                   !.inTransaction = FALSE ]
                                /\ SvcAwait(i, [ c EXCEPT !.ended = c.client \in driver.transactions ],
                                            "end")
                        /\ UNCHANGED dbSystem
                 [] c.op = "close" /\ c.pc = "rollbackFailed" ->
                        /\ ~fails
                        /\ SvcReturn(i, c, "error logged")
                        /\ UNCHANGED << dbService, dbSystem, driver >>
                 [] c.op = "close" /\ c.pc = "rolledBack" ->
                        \* SQLite: db.close()
                        IF fails
                        THEN /\ SvcReturn(i, c, "error logged")
                             /\ UNCHANGED << dbService, dbSystem, driver >>
                        ELSE /\ dbService' = [ dbService EXCEPT !.db = "null" ]
                             /\ dbSystem' = "null"
                             /\ driver' = [ driver EXCEPT !.sqlite = FALSE,
                                                          !.transactions = @ \ { 0 } ]
                             /\ SvcReturn(i, c, "returned")
                 [] c.op = "close" /\ c.pc = "end" ->
                        \* pool.end() closes every client of the pool
                        IF fails
                        THEN /\ SvcReturn(i, c, "error logged")
                             /\ UNCHANGED << dbService, dbSystem, driver >>
                        ELSE /\ dbService' = [ dbService EXCEPT !.db = "null" ]
                             /\ dbSystem' = "null"
                             /\ driver' = [ driver EXCEPT !.pool = FALSE, !.transactions = {} ]
                             /\ SvcReturn(i, c, "returned")
                 [] OTHER -> FALSE

\* the variables of the module database.ts and of the other service
moduleVars == << db, legacyService, isPostgres >>

\* the service is connected to one of its backends, or to none
InitService ==
    /\ reviewClients = << >>
    /\ chatClients = << >>
    /\ readyState = [ w \in Sockets |-> "NONE" ]
    /\ onclose = [ w \in Sockets |-> NoHandler ]
    /\ onerror = [ w \in Sockets |-> NoHandler ]
    /\ issued = {}
    /\ nextWs = 0
    /\ fired = [ w \in Sockets |-> {} ]
    /\ lastBroadcast = NoBroadcast
    /\ lastWs = NoWsRequest
    /\ isPostgres = TRUE
    /\ dbSystem \in { "postgres", "sqlite", "null" }
    /\ reviewsUnique = FALSE
    /\ game_reviews = {}
    /\ nextReviewId = 1
    /\ calls = [ i \in Slots |-> Idle ]
    /\ lastCall = Idle
    /\ InitUsersIdle
    /\ InitAuthIdle
    /\ InitErrorIdle
    /\ InitFnIdle
    /\ InitMsgIdle
    /\ dbService = [ NewService EXCEPT !.db = CASE dbSystem = "postgres" -> "Pool"
                                                [] dbSystem = "sqlite" -> "DB"
                                                [] OTHER -> "null" ]
    /\ db = "undefined"
    /\ legacyService = NewLegacyService
    /\ initCall = IdleInit
    /\ driver = [ NoConnections EXCEPT !.pool = (dbSystem = "postgres"),
                                       !.sqlite = (dbSystem = "sqlite") ]
    /\ svcCalls = [ i \in Slots |-> IdleSvc ]
    /\ lastSvcCall = IdleSvc

NextService ==
    \/ (beginTransaction /\ UNCHANGED << otherVars, moduleVars, dbSystem, initCall >>)
    \/ (commitTransaction /\ UNCHANGED << otherVars, moduleVars, dbSystem, initCall >>)
    \/ (rollbackTransaction /\ UNCHANGED << otherVars, moduleVars, dbSystem, initCall >>)
    \/ (close /\ UNCHANGED << otherVars, moduleVars, initCall >>)
    \/ (query /\ UNCHANGED << otherVars, moduleVars, initCall >>)
    \/ (ServiceCallResume /\ UNCHANGED << otherVars, moduleVars, initCall >>)

\* the DatabaseService of services/database.ts
SpecService == InitService /\ [][NextService]_vars

\* C15: beginTransaction throws DatabaseError and changes no state when a
\* transaction is in progress; commitTransaction throws when none is;
\* rollbackTransaction with none does nothing; at most one transaction is
\* open at any time; every successful commit or rollback ends a
\* transaction that an earlier successful begin opened.
C15_OneTransaction ==
    LET c == lastSvcCall
        connected == c.before.db # "null"
    IN  /\ c.op = "beginTransaction" /\ connected /\ c.before.inTransaction =>
              c.result = "Transaction already in progress" /\ c.before = Snapshot
        /\ c.op = "commitTransaction" /\ connected /\ ~c.before.inTransaction =>
              c.result = "No transaction in progress" /\ c.before = Snapshot
        /\ c.op = "rollbackTransaction" /\ connected /\ ~c.before.inTransaction =>
              c.result = "returned" /\ c.before = Snapshot
        /\ Cardinality(driver.transactions) <= 1
        /\ c.op \in { "commitTransaction", "rollbackTransaction" } /\ c.result = "returned"
              /\ c.before.inTransaction => c.ended

\* C16: close rolls back a transaction in progress before it closes the
\* connection; once close has returned no transaction is in progress and db
\* is null; on a service whose db is null, query (and insert, update,
\* delete) and beginTransaction throw DatabaseError 'Database not
\* initialized'; close on a service that is not connected does nothing.
C16_CloseLeavesServiceClosed ==
    LET c == lastSvcCall
    IN  /\ c.op = "close" /\ c.before.db = "null" =>
              c.result = "returned" /\ c.before = Snapshot
        /\ c.op = "close" /\ c.before.db # "null" =>
              /\ dbService.db = "null"
              /\ ~dbService.inTransaction
              /\ driver.transactions = {}
              /\ c.before.inTransaction => c.ended
        /\ c.op \in { "query", "beginTransaction" } /\ c.before.db = "null" =>
              c.result = "Database not initialized"

(***************************************************************************)
(* Rating statistics: GameService.getGameRatingStats and the route         *)
(* GET /:gameId/ratings of routes/games.ts                                 *)
(***************************************************************************)
\* routes/games.ts: checkQuery and query of router.get("/:gameId/ratings")
gameRatingsCheckQuery == Sql("SELECT COUNT(*) FROM game_reviews WHERE game_id = ?", << 50 >>)
gameRatingsQuery ==
    Sql("SELECT AVG(rating), COUNT(*) FROM game_reviews WHERE game_id = ?", << 133 >>)
\* services/game-service.ts
ratingStatsQuery ==
    Sql("SELECT COALESCE(AVG(rating), 0), COUNT(id) FROM game_reviews WHERE game_id = ?",
        << 136 >>)

\* WHERE game_id = ?
ReviewsOfGame(gameId) == { r \in game_reviews : r.game_id = gameId }

\* the value AVG adds up for a rating, in tenths: text that is not a number
\* counts as 0
SqlNumber(v) == IF v.type = "number" THEN v.tenths ELSE 0

RECURSIVE SumRatings(_)
SumRatings(rows) ==
    IF rows = {} THEN 0
    ELSE LET r == CHOOSE x \in rows : TRUE
         IN  SqlNumber(r.rating) + SumRatings(rows \ { r })

\* AVG(rating).toFixed(1) over at least one row, in tenths: the nearest
\* tenth, the larger one when two are as near
ToFixed1(rows) ==
    (2 * SumRatings(rows) + Cardinality(rows)) \div (2 * Cardinality(rows))

\* getGameRatingStats(gameId), up to the await of getGameById
getGameRatingStats ==
    \E i \in FreeSlot, gameId \in GameIds :
        /\ LET c == [ Idle EXCEPT !.op = "getGameRatingStats", !.gameId = gameId ]
           IN  IF DbQueryThrows(gameByIdQuery, << "id" >>)
               THEN setJsonResponse(i, c, "DatabaseError")
               ELSE Await(i, c, "getGameById")
        /\ NoWrite
        /\ UNCHANGED << socketVars, configVars, userVars, restVars >>

\* router.get("/:gameId/ratings"), up to the await of the check query
GameRatingsRoute ==
    \E i \in FreeSlot, gameId \in GameIds :
        /\ LET rows == ReviewsOfGame(gameId)
               c == [ Idle EXCEPT !.op = "GET /:gameId/ratings", !.gameId = gameId,
                                  !.stats = [ NoStats EXCEPT !.seen = rows ] ]
           IN  IF executeQuery(gameRatingsCheckQuery, << "gameId" >>, rows).threw
               THEN setJsonResponse(i, c, "500")
               ELSE Await(i, c, "checkQuery")
        /\ NoWrite
        /\ UNCHANGED << socketVars, configVars, userVars, restVars >>

\* the body { average_rating: "0.0", rating_count: 0 }
ZeroRatings(i, c) ==
    setJsonResponse(i, [ c EXCEPT !.stats = [ @ EXCEPT !.avg = 0, !.count = 0 ] ], "200")

\* a suspended statistics call runs to its next await or to its end
RatingsResume ==
    \E i \in Slots :
        LET c == calls[i]
            rows == ReviewsOfGame(c.gameId)
            seen == c.stats.seen
        IN  /\ c.op \in { "getGameRatingStats", "GET /:gameId/ratings" }
            /\ CASE c.op = "getGameRatingStats" /\ c.pc = "getGameById" ->
                        IF c.gameId \notin Games
                        THEN setJsonResponse(i, c, "NotFoundError")
                        ELSE IF DbQueryThrows(ratingStatsQuery, << "gameId" >>)
                        THEN setJsonResponse(i, c, "DatabaseError")
                        ELSE Await(i, [ c EXCEPT !.stats = [ NoStats EXCEPT !.seen = rows ] ],
                                   "query")
                 [] c.op = "getGameRatingStats" /\ c.pc = "query" ->
                        \* COALESCE(AVG(rating), 0), COUNT(id); toFixed(1)
                        setJsonResponse(i, [ c EXCEPT !.stats =
                              [ @ EXCEPT !.avg = IF seen = {} THEN 0 ELSE ToFixed1(seen),
                                         !.count = Cardinality(seen) ] ], "ok")
                 [] c.op = "GET /:gameId/ratings" /\ c.pc = "checkQuery" ->
                        LET checkResult == executeQuery(gameRatingsCheckQuery, << "gameId" >>, seen)
                        IN  IF ~checkResult.hasRows \/ Cardinality(checkResult.rows) = 0
                            THEN ZeroRatings(i, c)
                            ELSE IF executeQuery(gameRatingsQuery, << "gameId" >>, rows).threw
                            THEN setJsonResponse(i, c, "500")
                            ELSE Await(i, [ c EXCEPT !.stats = [ NoStats EXCEPT !.seen = rows ] ],
                                       "query")
                 [] c.op = "GET /:gameId/ratings" /\ c.pc = "query" ->
                        LET result == executeQuery(gameRatingsQuery, << "gameId" >>, seen)
                        IN  IF ~result.hasRows \/ Cardinality(result.rows) = 0
                            THEN ZeroRatings(i, c)
                            ELSE setJsonResponse(i, [ c EXCEPT !.stats =
                                     [ @ EXCEPT !.avg = ToFixed1(seen),
                                                !.count = Cardinality(seen) ] ], "200")
            /\ NoWrite
            /\ UNCHANGED << socketVars, configVars, userVars, restVars >>

NextRatings ==
    \/ createOrUpdateReview
    \/ deleteReview
    \/ ServiceResume
    \/ getGameRatingStats
    \/ GameRatingsRoute
    \/ RatingsResume

\* reviews written through GameService, statistics read through GameService
\* and through the route
SpecRatings == InitReviews /\ [][NextRatings]_vars

\* the mean of the ratings of a non-empty set of reviews, to one decimal,
\* in tenths
MeanToOneDecimal(rows) ==
    LET n == Cardinality(rows)
        Dist(t) == IF t * n >= SumRatings(rows) THEN t * n - SumRatings(rows)
                   ELSE SumRatings(rows) - t * n
        nearest == { t \in 0..50 : \A u \in 0..50 : Dist(t) <= Dist(u) }
    IN  CHOOSE t \in nearest : \A u \in nearest : u <= t

\* C17: the statistics a call returns for a game are those of the reviews
\* of the game stored when the call read the table: the count is their
\* number, the average is the mean of their ratings to one decimal, and
\* both are 0 when the game has no review.
C17_RatingStats ==
    LET c == lastCall
        stored == c.stats.seen
    IN  c.op \in { "getGameRatingStats", "GET /:gameId/ratings" } /\ c.status \in { "ok", "200" } =>
            /\ c.stats.count = Cardinality(stored)
            /\ c.stats.avg = IF stored = {} THEN 0 ELSE MeanToOneDecimal(stored)

(***************************************************************************)
(* The rating of a stored review: POST /api/reviews, and                   *)
(* POST /games/:gameId/reviews behind validateRequest(reviewCreationSchema)*)
(***************************************************************************)
MIN_RATING == 1
MAX_RATING == 5

\* z.number().int().min(RATINGS.MIN_RATING).max(RATINGS.MAX_RATING)
SchemaRating(v) ==
    /\ v.type = "number"
    /\ v.tenths % 10 = 0
    /\ v.tenths >= 10 * MIN_RATING
    /\ v.tenths <= 10 * MAX_RATING

\* reviewCreationSchema.parse(data) returns; it throws ZodError otherwise
reviewCreationSchema(data) ==
    /\ data.gameId.type = "string" /\ data.gameId.text # ""
    /\ SchemaRating(data.rating)
    /\ data.content.type = "string" /\ data.content.text # ""

\* ctx.params of a request matched by a route of routes/index.ts: the one
\* parameter the path of the route names, with the text of its segment
PathParam(path) ==
    CASE path = "GET /games/:id" -> "id"
      [] path = "GET /games/:gameId/reviews" -> "gameId"
      [] path = "POST /games/:gameId/reviews" -> "gameId"
      [] path = "DELETE /reviews/:reviewId" -> "reviewId"

ctxParams(path, segment) == [ k \in { PathParam(path) } |-> segment ]

\* z.object({ id: z.string().min(1) }).parse(data) returns; it throws
\* ZodError otherwise.  A key the schema does not name is stripped.
gameIdParamSchema(data) == "id" \in DOMAIN data /\ data["id"] # ""

reviewIdParamSchema(data) == "id" \in DOMAIN data /\ data["id"] # ""

\* POST /games/:gameId/reviews: authMiddleware,
\* validateRequest(gameIdParamSchema, "params"),
\* validateRequest(reviewCreationSchema), then
\* GameController.createOrUpdateReview up to the await of getGameById in
\* GameService.createOrUpdateReview.  userId is the user of the token the
\* request carries, "nobody" when it carries none that verifies.  The
\* controller reads the body a second time; `reread` is whether that read
\* returns the body or throws.
ReviewCreationRoute ==
    \E i \in FreeSlot, userId \in Users \cup { "nobody" }, gameId \in GameIds,
       data \in Bodies, reread \in BOOLEAN :
        /\ MayInsert
        /\ LET path == "POST /games/:gameId/reviews"
               route == [ Idle EXCEPT !.op = path, !.route = path, !.user = userId,
                                      !.body = data, !.gameId = gameId ]
               c == [ route EXCEPT !.op = "createOrUpdateReview",
                                   !.body = Body(Str(gameId), data.content, data.rating),
                                   !.pre = First(ReviewIdsOf(ReviewsOf(userId, gameId))) ]
           IN  IF userId = "nobody" THEN setJsonResponse(i, route, "UnauthorizedError")
               ELSE IF ~gameIdParamSchema(ctxParams(path, gameId))
               THEN setJsonResponse(i, route, "BadRequestError")
               ELSE IF data.kind # "object" THEN setJsonResponse(i, route, "500")
               ELSE IF ~reviewCreationSchema(data)
               THEN setJsonResponse(i, route, "BadRequestError")
               ELSE IF ~reread THEN setJsonResponse(i, c, "BadRequestError")
               ELSE IF data.rating.type # "number" \/ Falsy(data.content)
               THEN setJsonResponse(i, c, "BadRequestError")
               ELSE IF DbQueryThrows(gameByIdQuery, << "id" >>)
               THEN setJsonResponse(i, c, "BadRequestError")
               ELSE IF gameId \notin Games THEN setJsonResponse(i, c, "NotFoundError")
               ELSE Await(i, c, "getGameById")
        /\ NoWrite
        /\ UNCHANGED << socketVars, configVars, userVars, restVars >>

NextReviewWrites ==
    \/ PostReview
    \/ RouteResume
    \/ ReviewCreationRoute

\* the two routes that write a review
SpecReviewWrites == InitReviews /\ [][NextReviewWrites]_vars

\* Review.rating: a whole number from 1 to 5
WholeRating(v) == v.type = "number" /\ v.tenths \in { 10 * k : k \in 1..5 }

\* C18: every stored review has a rating that is a whole number between 1
\* and 5, whatever the bodies of the requests that wrote the reviews.
C18_RatingWhole1To5 == \A r \in game_reviews : WholeRating(r.rating)

(***************************************************************************)
(* Placeholders in PostgreSQL mode: the query helpers of database.ts, the  *)
(* query method of db/database-service.ts, DatabaseService.update.  A      *)
(* statement is the sequence of its placeholders in order of appearance:   *)
(* 0 for '?', n for '$n'.                                                  *)
(***************************************************************************)
MaxOffset == 3
MaxColumns == 2
MaxWhere == 2

QuestionMark == 0

RECURSIVE Ascending(_)
Ascending(S) ==
    IF S = {} THEN << >>
    ELSE LET x == CHOOSE y \in S : \A z \in S : y <= z
         IN  << x >> \o Ascending(S \ { x })

\* the queries a caller may write: '?' at any offsets up to MaxOffset, and
\* the queries of routes/reviews.ts
Queries ==
    { Sql("q", Ascending(S)) : S \in SUBSET (0..MaxOffset) }
    \cup { checkQuery, updateQuery, insertQuery, deleteQuery }

\* a WHERE clause with m placeholders, written with '?' or with $1..$m
WhereClauses ==
    { [ k \in 1..m |-> QuestionMark ] : m \in 0..MaxWhere }
    \cup { [ k \in 1..m |-> k ] : m \in 0..MaxWhere }

\* String.prototype.replace with a string pattern: the first occurrence of
\* the placeholder `from` becomes `to`
ReplaceFirst(w, from, to) ==
    LET at == { k \in 1..Len(w) : w[k] = from }
    IN  IF at = {} THEN w
        ELSE [ w EXCEPT ![CHOOSE k \in at : \A j \in at : k <= j] = to ]

\* for (let i = 0; i < whereParams.length; i++)
\*     adjustedWhereClause = adjustedWhereClause.replace(`$${i + 1}`, `$${columns.length + i + 1}`)
RECURSIVE AdjustWhereClause(_, _, _)
AdjustWhereClause(w, columns, i) ==
    IF i >= Len(w) THEN w
    ELSE AdjustWhereClause(ReplaceFirst(w, i + 1, columns + i + 1), columns, i + 1)

\* executeQuery, executeQueryAndReturnId, executeQueryAndReturnResults:
\* what they hand to the driver
HelperQuery ==
    \E q \in Queries,
       op \in { "executeQuery", "executeQueryAndReturnId", "executeQueryAndReturnResults" } :
        /\ sqlCall' = [ op |-> op, postgres |-> isPostgres, columns |-> 0,
                        written |-> q.qmarks, params |-> Len(q.qmarks),
                        placeholders |->
                            IF isPostgres THEN ReplaceQuestionMarks(q).dollars
                            ELSE [ k \in 1..Len(q.qmarks) |-> QuestionMark ] ]
        /\ UNCHANGED << wsVars, dbVars, userVars, authVars, errVars, svcVars, jwtCall, msgVars >>

\* the offsets of the '?' of a query are 0, 1, 2, ...: it consists of '?' only
OnlyQuestionMarks(written) == written = [ k \in 1..Len(written) |-> k - 1 ]

\* db/database-service.ts: DatabaseService.query
LegacyQuery ==
    \E q \in Queries :
        /\ sqlCall' = [ op |-> "DatabaseService.query", postgres |-> dbSystem = "postgres",
                        columns |-> 0, written |-> q.qmarks, params |-> Len(q.qmarks),
                        placeholders |->
                            IF dbSystem = "postgres" THEN ReplaceQuestionMarks(q).dollars
                            ELSE [ k \in 1..Len(q.qmarks) |-> QuestionMark ] ]
        /\ UNCHANGED << wsVars, dbVars, userVars, authVars, errVars, svcVars, jwtCall, msgVars >>

\* services/database.ts: DatabaseService.update(table, data, whereClause,
\* whereParams), with as many whereParams as the clause has placeholders
update ==
    \E columns \in 1..MaxColumns, whereClause \in WhereClauses :
        /\ sqlCall' = [ op |-> "update", postgres |-> dbSystem = "postgres",
                        columns |-> columns, written |-> whereClause, params |-> columns + Len(whereClause),
                        placeholders |->
                            IF dbSystem = "postgres"
                            THEN [ k \in 1..columns |-> k ]
                                 \o AdjustWhereClause(whereClause, columns, 0)
                            ELSE [ k \in 1..columns |-> QuestionMark ] \o whereClause ]
        /\ UNCHANGED << wsVars, dbVars, userVars, authVars, errVars, svcVars, jwtCall, msgVars >>

NextPlaceholders ==
    \/ HelperQuery
    \/ LegacyQuery
    \/ update

\* the statements built for the driver, on either backend
SpecPlaceholders == InitReviews /\ [][NextPlaceholders]_vars

\* C19: in PostgreSQL mode the statement handed to the driver has the
\* placeholders $1, $2, ... in order of appearance, one for each parameter.
C19_PlaceholdersInOrder ==
    sqlCall.op # "idle" /\ sqlCall.postgres =>
        sqlCall.placeholders = [ k \in 1..sqlCall.params |-> k ]

(***************************************************************************)
(* The expiry of the tokens issued at registration and login.  Times are   *)
(* counted in days: a value of the seconds clock t stands for t * 86400    *)
(* seconds, and the same number read from the milliseconds clock is        *)
(* MsPerSecond * t.                                                        *)
(***************************************************************************)
MsPerSecond == 1000
\* AUTH.TOKEN_EXPIRY: 30 * 24 * 60 * 60 * 1000, in units of 24 * 60 * 60
TOKEN_EXPIRY == 30 * MsPerSecond
\* the day the server starts on, and the days after it on which it issues
Today == 20000
MaxIssue == 3
IssueTimes == Today..(Today + MaxIssue)
\* the days between the issue of a token and a verification of it
Elapsed == { 0, 1, 2, 7, 8, 29, 30, 31, 365, 30 * MsPerSecond + 1 }

\* Math.floor(Date.now() / 1000) and Date.now() on the day t
SecondsNow(t) == t
DateNow(t) == MsPerSecond * t

\* create(header, payload, key) on the day t
Issued(issuer, t, exp) ==
    [ op |-> "issue", issuer |-> issuer, iat |-> t, exp |-> exp, now |-> t, result |-> "token" ]

\* utils/auth.ts: generateToken, called by UserService at login and
\* registration: exp: now + AUTH.TOKEN_EXPIRY
generateTokenAt ==
    \E t \in IssueTimes :
        /\ jwtCall' = Issued("generateToken", t, SecondsNow(t) + TOKEN_EXPIRY)
        /\ UNCHANGED << wsVars, dbVars, userVars, authVars, errVars, svcVars, sqlCall, msgVars >>

\* routes/auth.ts, POST /register: exp: Date.now() + 30 * 24 * 60 * 60 * 1000
RegisterToken ==
    \E t \in IssueTimes :
        /\ jwtCall' = Issued("POST /register", t, DateNow(t) + 30 * MsPerSecond)
        /\ UNCHANGED << wsVars, dbVars, userVars, authVars, errVars, svcVars, sqlCall, msgVars >>

\* routes/auth.ts, POST /login: exp: Date.now() + 7 * 24 * 60 * 60 * 1000
LoginToken ==
    \E t \in IssueTimes :
        /\ jwtCall' = Issued("POST /login", t, DateNow(t) + 7 * MsPerSecond)
        /\ UNCHANGED << wsVars, dbVars, userVars, authVars, errVars, svcVars, sqlCall, msgVars >>

\* routes/auth.ts with the generated HS512 key, register and login:
\* exp: Date.now() / 1000 + 60 * 60 * 24
DayToken ==
    \E t \in IssueTimes :
        /\ jwtCall' = Issued("HS512", t, SecondsNow(t) + 1)
        /\ UNCHANGED << wsVars, dbVars, userVars, authVars, errVars, svcVars, sqlCall, msgVars >>

\* djwt verify of the token issued, some days later: it throws when
\* exp < Date.now() / 1000
verifyToken ==
    \E elapsed \in Elapsed :
        /\ jwtCall.op # "idle"
        /\ LET t == jwtCall.iat + elapsed
           IN  jwtCall' = [ jwtCall EXCEPT !.op = "verify", !.now = t,
                                !.result = IF jwtCall.exp < SecondsNow(t) THEN "expired"
                                           ELSE "payload" ]
        /\ UNCHANGED << wsVars, dbVars, userVars, authVars, errVars, svcVars, sqlCall, msgVars >>

NextTokens ==
    \/ generateTokenAt
    \/ RegisterToken
    \/ LoginToken
    \/ DayToken
    \/ verifyToken

\* tokens issued and verified later
SpecTokens == InitSockets /\ [][NextTokens]_vars

\* C20: a token issued at login or registration has exp = its issue time
\* plus 30 days, in the seconds of iat and of verification, and a
\* verification more than 30 days after the issue rejects it.
C20_ExpiresAfter30Days ==
    jwtCall.op # "idle" =>
        /\ jwtCall.exp = jwtCall.iat + 30
        /\ jwtCall.op = "verify" /\ jwtCall.now > jwtCall.iat + 30 => jwtCall.result = "expired"

(***************************************************************************)
(* websockets/chat.ts: ws.onmessage of a chat socket.  The handler has no  *)
(* await: executeQueryAndReturnId is called and its promise is dropped.    *)
(***************************************************************************)
MaxMessages == 2

Frames ==
    { NotJson, JsonNull, Frame("message", "hi"), Frame("message", ""), Frame("typing", "hi") }

\* data.type === "message" && data.content
IsChatMessage(data) == data.type = "message" /\ data.content # ""

chatInsertQuery ==
    Sql("INSERT INTO chat_messages (user_id, content) VALUES (?, ?)", << 53, 56 >>)

\* database.ts: executeQueryAndReturnId(query, params), an async function,
\* up to its first await.  On SQLite db.query runs before the call returns;
\* on PostgreSQL the function is suspended at `await db.connect()`.  An
\* exception inside it rejects the promise it returns: the call itself
\* never throws.
executeQueryAndReturnId(q, params, fails) ==
    IF isPostgres THEN "pending"
    ELSE IF SqliteRuns(q, params) /\ ~fails THEN "stored"
    ELSE "failed"

\* broadcastMessage: the clients whose send was called and returned; a send
\* that throws ends the loop
ChatSentTo(m, states, throwers) ==
    LET open == { k \in 1..Len(m) : states[m[k].ws] = "OPEN" }
        threw == { k \in open : m[k].ws \in throwers }
    IN  { m[k].ws : k \in { j \in open : \A t \in threw : j < t } }

\* ws.onmessage = async (e) => { ... } on an open chat socket
ChatMessageEvent ==
    \E w \in Sockets, frame \in Frames, fails \in BOOLEAN,
       throwers \in SUBSET { x \in MapSockets(chatClients) : readyState[x] = "OPEN" } :
        /\ readyState[w] = "OPEN"
        /\ onclose[w] # NoHandler
        /\ w \in MapSockets(chatClients)
        /\ chat_messages + pendingInserts < MaxMessages
        /\ LET handled == frame.kind = "object" /\ IsChatMessage(frame)
               insert == IF handled
                         THEN executeQueryAndReturnId(chatInsertQuery,
                                                      << "userId", "data.content" >>, fails)
                         ELSE "none"
           IN  /\ handled \/ (~fails /\ throwers = {})
               /\ chat_messages' = IF insert = "stored" THEN chat_messages + 1
                                    ELSE chat_messages
               /\ pendingInserts' = IF insert = "pending" THEN pendingInserts + 1
                                     ELSE pendingInserts
               /\ lastChat' = [ ws |-> w, frame |-> frame, insert |-> insert,
                                rowsBefore |-> chat_messages, rowsAfter |-> chat_messages',
                                broadcast |-> handled,
                                sentTo |-> IF handled
                                           THEN ChatSentTo(chatClients, readyState, throwers)
                                           ELSE {},
                                before |-> readyState[w], after |-> readyState[w] ]
        /\ lastBroadcast' = NoBroadcast
        /\ lastWs' = NoWsRequest
        /\ UNCHANGED << reviewClients, chatClients, readyState, onclose, onerror, issued,
                        nextWs, fired, dbVars, userVars, authVars, errVars, svcVars, fnVars >>

\* executeQueryAndReturnId after `await db.connect()`: the INSERT with its
\* placeholders converted and RETURNING id appended runs, or is rejected;
\* nobody reads the outcome
ChatInsertResume ==
    \E fails \in BOOLEAN :
        /\ pendingInserts > 0
        /\ pendingInserts' = pendingInserts - 1
        /\ chat_messages' =
               IF PgRuns(ReplaceQuestionMarks(chatInsertQuery), << "userId", "data.content" >>)
                  /\ ~fails
               THEN chat_messages + 1 ELSE chat_messages
        /\ UNCHANGED << wsVars, dbVars, userVars, authVars, errVars, svcVars, fnVars, lastChat >>

\* the chat server with its table, connected to one of the two backends
InitChatMessages ==
    /\ reviewClients = << >>
    /\ chatClients = << >>
    /\ readyState = [ w \in Sockets |-> "NONE" ]
    /\ onclose = [ w \in Sockets |-> NoHandler ]
    /\ onerror = [ w \in Sockets |-> NoHandler ]
    /\ issued = {}
    /\ nextWs = 0
    /\ fired = [ w \in Sockets |-> {} ]
    /\ lastBroadcast = NoBroadcast
    /\ lastWs = NoWsRequest
    /\ isPostgres \in BOOLEAN
    /\ dbSystem = IF isPostgres THEN "postgres" ELSE "sqlite"
    /\ reviewsUnique = FALSE
    /\ game_reviews = {}
    /\ nextReviewId = 1
    /\ calls = [ i \in Slots |-> Idle ]
    /\ lastCall = Idle
    /\ InitUsersIdle
    /\ InitRestIdle

NextChatMessages ==
    \/ ChatWsRequest
    \/ SocketOpens
    \/ SocketCloses
    \/ ChatCloseEvent
    \/ ChatMessageEvent
    \/ ChatInsertResume

\* the chat sockets and the frames their clients send
SpecChatMessages == InitChatMessages /\ [][NextChatMessages]_vars

\* C21: a frame of type 'message' with non-empty content is broadcast only
\* after its row has been stored in chat_messages, and is not broadcast
\* when storing it fails; any other frame is neither stored nor broadcast
\* and leaves the connection as it was.
C21_StoredBeforeBroadcast ==
    LET c == lastChat
        message == c.frame.kind = "object" /\ IsChatMessage(c.frame)
    IN  c.ws # 0 =>
            /\ message /\ c.broadcast => c.insert = "stored" /\ c.rowsAfter = c.rowsBefore + 1
            /\ ~message =>
                  /\ c.insert = "none" /\ c.rowsAfter = c.rowsBefore
                  /\ ~c.broadcast /\ c.sentTo = {}
                  /\ c.after = c.before

(***************************************************************************)
(* routes/index.ts: the game and review routes behind validateRequest of   *)
(* the path parameters.  A request record keeps the route that matched it  *)
(* in `route`; its `op` is the route until a controller method is entered  *)
(* and the name of that method from then on.                               *)
(***************************************************************************)
\* the decimal text of a review id in the path
ReviewIdTexts == { "1", "2", "3", "4" }

\* parseInt(reviewId) of such a text
parseInt(text) ==
    CASE text = "1" -> 1 [] text = "2" -> 2 [] text = "3" -> 3 [] text = "4" -> 4

reviewCountQuery == Sql("SELECT COUNT(*) as count FROM game_reviews WHERE game_id = ?", << 59 >>)
reviewListQuery ==
    Sql("SELECT gr.*, u.username WHERE gr.game_id = ? LIMIT ? OFFSET ?", << 133, 181, 190 >>)

\* GET /games/:id: validateRequest(gameIdParamSchema, "params"), then
\* GameController.getGameById and GameService.getGameById
GameByIdRoute ==
    \E i \in FreeSlot, gameId \in GameIds :
        /\ LET path == "GET /games/:id"
               route == [ Idle EXCEPT !.op = path, !.route = path, !.gameId = gameId ]
               c == [ route EXCEPT !.op = "getGameById" ]
           IN  IF ~gameIdParamSchema(ctxParams(path, gameId))
               THEN setJsonResponse(i, route, "BadRequestError")
               ELSE IF DbQueryThrows(gameByIdQuery, << "id" >>)
               THEN setJsonResponse(i, c, "BadRequestError")
               ELSE IF gameId \notin Games THEN setJsonResponse(i, c, "NotFoundError")
               ELSE setJsonResponse(i, c, "200")
        /\ NoWrite
        /\ UNCHANGED << socketVars, configVars, userVars, restVars >>

\* GET /games/:gameId/reviews: validateRequest(gameIdParamSchema, "params"),
\* then GameController.getGameReviews and GameService.getGameReviews
GameReviewsRoute ==
    \E i \in FreeSlot, gameId \in GameIds :
        /\ LET path == "GET /games/:gameId/reviews"
               route == [ Idle EXCEPT !.op = path, !.route = path, !.gameId = gameId ]
               c == [ route EXCEPT !.op = "getGameReviews" ]
           IN  IF ~gameIdParamSchema(ctxParams(path, gameId))
               THEN setJsonResponse(i, route, "BadRequestError")
               ELSE IF DbQueryThrows(gameByIdQuery, << "id" >>)
               THEN setJsonResponse(i, c, "BadRequestError")
               ELSE IF gameId \notin Games THEN setJsonResponse(i, c, "NotFoundError")
               ELSE IF \/ DbQueryThrows(reviewCountQuery, << "gameId" >>)
                       \/ DbQueryThrows(reviewListQuery, << "gameId", "limit", "offset" >>)
               THEN setJsonResponse(i, c, "BadRequestError")
               ELSE setJsonResponse(i, c, "200")
        /\ NoWrite
        /\ UNCHANGED << socketVars, configVars, userVars, restVars >>

\* DELETE /reviews/:reviewId: authMiddleware,
\* validateRequest(reviewIdParamSchema, "params"), then
\* GameController.deleteReview up to the await of db.delete in
\* GameService.deleteReview
ReviewDeletionRoute ==
    \E i \in FreeSlot, userId \in Users \cup { "nobody" }, segment \in ReviewIdTexts :
        /\ LET path == "DELETE /reviews/:reviewId"
               reviewId == parseInt(segment)
               review == ReviewsById(reviewId)
               owned == { r \in review : r.user_id = userId }
               route == [ Idle EXCEPT !.op = path, !.route = path, !.user = userId,
                                      !.target = reviewId ]
               c == [ route EXCEPT !.op = "deleteReview", !.pre = First(ReviewIdsOf(owned)) ]
           IN  IF userId = "nobody" THEN setJsonResponse(i, route, "UnauthorizedError")
               ELSE IF ~reviewIdParamSchema(ctxParams(path, segment))
               THEN setJsonResponse(i, route, "BadRequestError")
               ELSE IF DbQueryThrows(reviewByIdQuery, << "id" >>)
               THEN setJsonResponse(i, c, "BadRequestError")
               ELSE IF review = {} THEN setJsonResponse(i, c, "NotFoundError")
               ELSE IF owned = {} THEN setJsonResponse(i, c, "NotFoundError")
               ELSE Await(i, c, "getReviewById")
        /\ NoWrite
        /\ UNCHANGED << socketVars, configVars, userVars, restVars >>

NextRoutes ==
    \/ GameByIdRoute
    \/ GameReviewsRoute
    \/ ReviewCreationRoute
    \/ ReviewDeletionRoute

\* the four routes of routes/index.ts that validate a path parameter
SpecRoutes == InitReviews /\ [][NextRoutes]_vars

\* the controller method the route hands the request to
Controller(path) ==
    CASE path = "GET /games/:id" -> "getGameById"
      [] path = "GET /games/:gameId/reviews" -> "getGameReviews"
      [] path = "POST /games/:gameId/reviews" -> "createOrUpdateReview"
      [] path = "DELETE /reviews/:reviewId" -> "deleteReview"

\* the requests that are suspended, and the one just answered
Requests == { lastCall } \cup { calls[i] : i \in Slots }

\* C22: an authenticated POST /games/:gameId/reviews whose body satisfies
\* reviewCreationSchema, an authenticated DELETE /reviews/:reviewId and a
\* GET /games/:gameId/reviews pass the validation of their path parameter
\* and reach createOrUpdateReview, deleteReview and getGameReviews; none is
\* answered 400 by the validation.
C22_ReachController ==
    \A c \in Requests :
        /\ c.route \in { "POST /games/:gameId/reviews", "DELETE /reviews/:reviewId",
                          "GET /games/:gameId/reviews" }
        /\ c.route # "GET /games/:gameId/reviews" => c.user # "nobody"
        /\ c.route = "POST /games/:gameId/reviews" =>
               c.body.kind = "object" /\ reviewCreationSchema(c.body)
        => c.op = Controller(c.route)

====
